---- MODULE Spec2Model ----
(***************************************************************************)
(* Music-Notation-Parser: the token model (src/models/token.py), the       *)
(* symbol classifier NotationImageParser (src/parsers/image_parser.py)     *)
(* and the recursive-descent MusicNotationParser                           *)
(* (src/parsers/music_parser.py), as a state machine.  One parse() call is *)
(* one behaviour: every function of the parser is a program location, a    *)
(* call pushes the location to return to, and _read_next_token pulls the   *)
(* next cell of the sheet.                                                 *)
(***************************************************************************)
EXTENDS Integers, Sequences, FiniteSets, TLC

(***************************************************************************)
(* Bounds of the model.                                                    *)
(***************************************************************************)
\* The sheets of the model are of four kinds.  A draft holds any cells, at most
\* MaxDraftCells of them and at most MaxAfterViolation after the first cell
\* that breaks the grammar of the notation.  A score begins with the header
\* "Nom : Test ; Instrument : Piano ." and goes on with score cells (images,
\* a meter digit, FIN) up to the first cell that breaks the grammar, at most
\* MaxTokens cells in all.  A minimal sheet is the header, a treble clef, one
\* of the sixteen pitch images, the end-of-staff bar, FIN and one more cell.
\* A sheet of two staffs is the header, two staffs of one symbol each, FIN
\* and one more cell.
\* A pull beyond the last cell of a sheet finds an empty cell, and
\* _read_next_token recurses until RecursionError.
MaxTokens == 15

MaxDraftCells == 11

MaxAfterViolation == 1

\* The classifier alone is run on at most MaxClassified images in a row, from
\* every held clef and alteration.
MaxClassified == 3

\* The lexer alone is run on the texts of at most MaxTextLen characters, and
\* on the header texts.
MaxTextLen == 4

(***************************************************************************)
(* src/config.py: the reference images and the six pitch tables.           *)
(***************************************************************************)
REFERENCE_IMAGES ==
  << "Note_H1.JPG", "Note_H2.JPG", "Note_H3.JPG", "Note_H4.JPG",
     "Note_H5.JPG", "Note_H6.JPG", "Note_H7.JPG", "Note_H8.JPG",
     "Note_H9.JPG", "Note_H10.JPG", "Note_H11.JPG", "Note_H12.JPG",
     "Note_H13.JPG", "Note_H14.JPG", "Note_H15.JPG", "Note_H16.JPG",
     "Note_PAUSE.JPG", "Note_DEMI_PAUSE.JPG", "BATON_MESURE.JPG",
     "Alteration_BEMOL.JPG", "Alteration_DIESE.JPG",
     "Note_CLE_SOL.JPG", "Note_CLE_FA.JPG", "BATON_FIN_PORTEE.JPG" >>

SOL_TOKENS ==
  << "", "SOL_TOKEN_DO_MILIEU", "SOL_TOKEN_RE_L", "SOL_TOKEN_MI_L",
     "SOL_TOKEN_FA_L", "SOL_TOKEN_SOL_L", "SOL_TOKEN_LA_L", "SOL_TOKEN_SI_L",
     "SOL_TOKEN_DO_H", "SOL_TOKEN_RE_H", "SOL_TOKEN_MI_H", "SOL_TOKEN_FA_H",
     "SOL_TOKEN_SOL_H", "SOL_TOKEN_LA_H", "FA_TOKEN_SI_H", "FA_TOKEN_DO_H" >>

FA_TOKENS ==
  << "FA_TOKEN_DO_L", "FA_TOKEN_RE_L", "FA_TOKEN_MI_L", "FA_TOKEN_FA_L",
     "FA_TOKEN_SOL_L", "FA_TOKEN_LA_L", "FA_TOKEN_SI_L", "FA_TOKEN_DO_H",
     "FA_TOKEN_RE_H", "FA_TOKEN_MI_H", "FA_TOKEN_FA_H", "FA_TOKEN_SOL_H",
     "FA_TOKEN_LA_H", "FA_TOKEN_SI_H", "FA_TOKEN_DO_MILIEU", "" >>

SOL_SHARP_TOKENS ==
  << "FA_TOKEN_DO_L_SHARP", "FA_TOKEN_RE_L_SHARP", "", "FA_TOKEN_FA_L_SHARP",
     "FA_TOKEN_SOL_L_SHARP", "FA_TOKEN_LA_L_SHARP", "", "FA_TOKEN_DO_H_SHARP",
     "FA_TOKEN_RE_H_SHARP", "", "FA_TOKEN_FA_H_SHARP", "FA_TOKEN_SOL_H_SHARP",
     "FA_TOKEN_LA_H_SHARP", "", "FA_TOKEN_DO_MILIEU_SHARP", "" >>

FA_SHARP_TOKENS ==
  << "", "SOL_TOKEN_DO_MILIEU_SHARP", "SOL_TOKEN_RE_L_SHARP", "",
     "SOL_TOKEN_FA_L_SHARP", "SOL_TOKEN_SOL_L_SHARP", "SOL_TOKEN_LA_L_SHARP", "",
     "SOL_TOKEN_DO_H_SHARP", "SOL_TOKEN_RE_H_SHARP", "", "SOL_TOKEN_FA_H_SHARP",
     "SOL_TOKEN_SOL_H_SHARP", "SOL_TOKEN_LA_H_SHARP", "", "" >>

FA_BEMOL_TOKENS ==
  << "", "FA_TOKEN_RE_L_BEMOL", "FA_TOKEN_MI_L_BEMOL", "",
     "FA_TOKEN_SOL_L_BEMOL", "FA_TOKEN_LA_L_BEMOL", "FA_TOKEN_SI_L_BEMOL", "",
     "FA_TOKEN_RE_H_BEMOL", "FA_TOKEN_MI_H_BEMOL", "FA_TOKEN_FA_H",
     "FA_TOKEN_SOL_H_BEMOL", "FA_TOKEN_LA_H_BEMOL", "FA_TOKEN_SI_SI_BEMOL", "", "" >>

SOL_BEMOL_TOKENS ==
  << "", "", "SOL_TOKEN_RE_L_BEMOL", "SOL_TOKEN_MI_L_BEMOL", "",
     "SOL_TOKEN_SOL_L_BEMOL", "SOL_TOKEN_LA_L_BEMOL", "SOL_TOKEN_SI_L_BEMOL", "",
     "SOL_TOKEN_RE_H_BEMOL", "SOL_TOKEN_MI_H_BEMOL", "", "SOL_TOKEN_SOL_H_BEMOL",
     "SOL_TOKEN_LA_H_BEMOL", "FA_TOKEN_SI_H_BEMOL", "" >>

(***************************************************************************)
(* src/models/token.py: the token model.  Python's None is the string      *)
(* "<None>", which no payload of the lexer or of the tables can equal      *)
(* (identifiers are alphanumeric, an UNKNOWN payload is one character).    *)
(***************************************************************************)
None == "<None>"

TokenType ==
  { "UNKNOWN", "END_OF_PARTITION", "NAME", "IDENTIFIER", "INSTRUMENT", "COLON",
    "SEMICOLON", "PERIOD", "METER", "CLEF_SOL", "CLEF_FA", "NOTE", "PAUSE",
    "HALF_PAUSE", "ALTERATION_BEMOL", "ALTERATION_DIESE", "MEASURE_BAR",
    "END_STAFF_BAR" }

ClefType == { "NONE", "SOL", "FA" }

AlterationType == { "NONE", "DIESE", "BEMOL" }

\* Token(type, value=None, clef=ClefType.NONE, alteration=AlterationType.NONE)
Token(type, value, clef, alteration) ==
  [ type |-> type, value |-> value, clef |-> clef, alteration |-> alteration ]

\* current_token = None: no token object at all.
NoToken == Token("None", None, "NONE", "NONE")

\* str() of a one-digit integer (the payload of a METER token).
DigitStr == << "0", "1", "2", "3", "4", "5", "6", "7", "8", "9" >>

\* str(value) as an f-string formats it: None prints as "None".
PyStr(type, value) ==
  IF type = "METER" THEN DigitStr[value + 1]
  ELSE IF value = None THEN "None" ELSE value

\* Token.__str__
TokenStr(tok) ==
  IF tok.type = "None" THEN "None"
  ELSE IF tok.type = "METER" \/ tok.value # None
       THEN "Token(" \o tok.type \o ", " \o PyStr(tok.type, tok.value) \o ")"
       ELSE "Token(" \o tok.type \o ")"

\* token_mapping of get_token_type_from_string
token_mapping ==
  ( "TOKEN_INCONNU" :> "UNKNOWN" ) @@ ( "TOKEN_EO_PARTITION" :> "END_OF_PARTITION" )
  @@ ( "TOKEN_NOM" :> "NAME" ) @@ ( "TOKEN_ID" :> "IDENTIFIER" )
  @@ ( "TOKEN_INSTRUMENT" :> "INSTRUMENT" ) @@ ( "TOKEN_DP" :> "COLON" )
  @@ ( "TOKEN_PV" :> "SEMICOLON" ) @@ ( "TOKEN_PT" :> "PERIOD" )
  @@ ( "TOKEN_METER" :> "METER" ) @@ ( "TOKEN_CLE_SOL" :> "CLEF_SOL" )
  @@ ( "TOKEN_CLE_FA" :> "CLEF_FA" ) @@ ( "TOKEN_PAUSE" :> "PAUSE" )
  @@ ( "TOKEN_DEMI_PAUSE" :> "HALF_PAUSE" )
  @@ ( "TOKEN_ALT_BEMOL" :> "ALTERATION_BEMOL" )
  @@ ( "TOKEN_ALT_DIESE" :> "ALTERATION_DIESE" )
  @@ ( "TOKEN_BATON_MESURE" :> "MEASURE_BAR" )
  @@ ( "TOKEN_BATON_FIN_PORTEE" :> "END_STAFF_BAR" )

\* str.startswith
startswith(s, prefix) ==
  Len(s) >= Len(prefix) /\ SubSeq(s, 1, Len(prefix)) = prefix

\* A lookup that knows only the SOL_TOKEN prefix.
get_token_type_sol_only(token_str) ==
  IF token_str \in DOMAIN token_mapping THEN token_mapping[token_str]
  ELSE IF startswith(token_str, "SOL_TOKEN") THEN "NOTE"
  ELSE "UNKNOWN"

\* get_token_type_from_string
get_token_type_from_string(token_str) ==
  IF token_str \in DOMAIN token_mapping THEN token_mapping[token_str]
  ELSE IF startswith(token_str, "SOL_TOKEN") \/ startswith(token_str, "FA_TOKEN")
  THEN "NOTE"
  ELSE "UNKNOWN"

\* list.index, 0-based as in Python; -1 stands for the ValueError it raises.
index(list, x) ==
  IF \E i \in 1..Len(list) : list[i] = x
  THEN (CHOOSE i \in 1..Len(list) :
          list[i] = x /\ \A j \in 1..(i - 1) : list[j] # x) - 1
  ELSE -1

(***************************************************************************)
(* src/parsers/image_parser.py: NotationImageParser.                       *)
(* The matcher find_closest_match answers with a reference identifier or   *)
(* with None; an image is [exists, match].                                 *)
(***************************************************************************)
\* A token of kind NOTE with no payload.
create_placeholder_token(clef, alteration) ==
  Token("NOTE", None, clef, alteration)

\* _create_unknown_token
create_unknown_token(clef, alteration) ==
  Token("UNKNOWN", None, clef, alteration)

\* A selection that takes the treble tables when no clef is held.
NoteTableDefaultSol(clef, alteration) ==
  IF clef = "FA"
  THEN (IF alteration = "NONE" THEN FA_TOKENS
        ELSE IF alteration = "DIESE" THEN FA_SHARP_TOKENS
        ELSE FA_BEMOL_TOKENS)
  ELSE (IF alteration = "NONE" THEN SOL_TOKENS
        ELSE IF alteration = "DIESE" THEN SOL_SHARP_TOKENS
        ELSE SOL_BEMOL_TOKENS)

\* A selection that takes the flat table for a sharp and the sharp table for
\* a flat.
NoteTableSwapped(clef, alteration) ==
  IF clef = "SOL"
  THEN (IF alteration = "NONE" THEN SOL_TOKENS
        ELSE IF alteration = "DIESE" THEN SOL_BEMOL_TOKENS
        ELSE SOL_SHARP_TOKENS)
  ELSE IF clef = "FA"
  THEN (IF alteration = "NONE" THEN FA_TOKENS
        ELSE IF alteration = "DIESE" THEN FA_BEMOL_TOKENS
        ELSE FA_SHARP_TOKENS)
  ELSE << >>

\* The table the held clef and alteration select, <<>> when the clef is NONE.
NoteTable(clef, alteration) ==
  IF clef = "SOL"
  THEN (IF alteration = "NONE" THEN SOL_TOKENS
        ELSE IF alteration = "DIESE" THEN SOL_SHARP_TOKENS
        ELSE SOL_BEMOL_TOKENS)
  ELSE IF clef = "FA"
  THEN (IF alteration = "NONE" THEN FA_TOKENS
        ELSE IF alteration = "DIESE" THEN FA_SHARP_TOKENS
        ELSE FA_BEMOL_TOKENS)
  ELSE << >>

\* A pitch lookup that resets the held alteration only when it returns a
\* NOTE token.
IdentifyPitchResetOnSuccess(matched_image, clef, alteration) ==
  LET image_index == index(REFERENCE_IMAGES, matched_image)
      table       == NoteTable(clef, alteration)
  IN  IF image_index = -1
      THEN [ token |-> create_unknown_token(clef, alteration),
             clef |-> clef, alteration |-> alteration ]
      ELSE LET note_token == IF table = << >> THEN None
                             ELSE table[image_index + 1]
           IN  IF note_token # None /\ note_token # ""
               THEN [ token |-> Token("NOTE", note_token, clef, "NONE"),
                      clef |-> clef, alteration |-> "NONE" ]
               ELSE [ token |-> create_unknown_token(clef, alteration),
                      clef |-> clef, alteration |-> alteration ]

\* A pitch lookup that leaves the held alteration as it is.
IdentifyPitchKeepingAlteration(matched_image, clef, alteration) ==
  LET image_index == index(REFERENCE_IMAGES, matched_image)
      table       == NoteTable(clef, alteration)
  IN  IF image_index = -1
      THEN [ token |-> create_unknown_token(clef, alteration),
             clef |-> clef, alteration |-> alteration ]
      ELSE LET note_token == IF table = << >> THEN None
                             ELSE table[image_index + 1]
           IN  IF note_token # None /\ note_token # ""
               THEN [ token |-> Token("NOTE", note_token, clef, "NONE"),
                      clef |-> clef, alteration |-> alteration ]
               ELSE [ token |-> create_unknown_token(clef, alteration),
                      clef |-> clef, alteration |-> alteration ]

\* The try block of _identify_token_from_match: a pitch image, or an
\* identifier REFERENCE_IMAGES.index does not find (ValueError, caught).
IdentifyPitch(matched_image, clef, alteration) ==
  LET image_index == index(REFERENCE_IMAGES, matched_image)
      table       == NoteTable(clef, alteration)
  IN  IF image_index = -1
      THEN \* ValueError before the alteration is reset
           [ token |-> create_unknown_token(clef, alteration),
             clef |-> clef, alteration |-> alteration ]
      ELSE IF table # << >> /\ image_index + 1 > Len(table)
      THEN \* IndexError before the alteration is reset
           [ token |-> create_unknown_token(clef, alteration),
             clef |-> clef, alteration |-> alteration ]
      ELSE LET note_token == IF table = << >> THEN None
                             ELSE table[image_index + 1]
           IN  IF note_token # None /\ note_token # ""
               THEN [ token |-> Token("NOTE", note_token, clef, "NONE"),
                      clef |-> clef, alteration |-> "NONE" ]
               ELSE [ token |-> create_unknown_token(clef, "NONE"),
                      clef |-> clef, alteration |-> "NONE" ]

\* _identify_token_from_match: the token and the classifier's state after it.
identify_token_from_match(matched_image, clef, alteration) ==
  CASE matched_image = "Note_CLE_SOL.JPG" ->
         [ token |-> Token("CLEF_SOL", None, "SOL", "NONE"),
           clef |-> "SOL", alteration |-> alteration ]
    [] matched_image = "Note_CLE_FA.JPG" ->
         [ token |-> Token("CLEF_FA", None, "FA", "NONE"),
           clef |-> "FA", alteration |-> alteration ]
    [] matched_image = "Note_PAUSE.JPG" ->
         [ token |-> Token("PAUSE", None, clef, "NONE"),
           clef |-> clef, alteration |-> alteration ]
    [] matched_image = "Note_DEMI_PAUSE.JPG" ->
         [ token |-> Token("HALF_PAUSE", None, clef, "NONE"),
           clef |-> clef, alteration |-> alteration ]
    [] matched_image = "BATON_MESURE.JPG" ->
         [ token |-> Token("MEASURE_BAR", None, clef, "NONE"),
           clef |-> clef, alteration |-> alteration ]
    [] matched_image = "Alteration_BEMOL.JPG" ->
         [ token |-> Token("ALTERATION_BEMOL", None, clef, "NONE"),
           clef |-> clef, alteration |-> "BEMOL" ]
    [] matched_image = "Alteration_DIESE.JPG" ->
         [ token |-> Token("ALTERATION_DIESE", None, clef, "NONE"),
           clef |-> clef, alteration |-> "DIESE" ]
    [] matched_image = "BATON_FIN_PORTEE.JPG" ->
         [ token |-> Token("END_STAFF_BAR", None, clef, "NONE"),
           clef |-> clef, alteration |-> alteration ]
    [] OTHER -> IdentifyPitch(matched_image, clef, alteration)

\* A parse_image that clears the held alteration when the matcher finds
\* nothing.
parse_image_clearing_on_no_match(image, clef, alteration) ==
  IF ~image.exists
  THEN [ token |-> NoToken, clef |-> clef, alteration |-> alteration ]
  ELSE IF image.match = None
  THEN [ token |-> create_unknown_token(clef, alteration),
         clef |-> clef, alteration |-> "NONE" ]
  ELSE identify_token_from_match(image.match, clef, alteration)

\* A parse_image that never overwrites the held clef or alteration.
parse_image_keeping_state(image, clef, alteration) ==
  IF ~image.exists
  THEN [ token |-> NoToken, clef |-> clef, alteration |-> alteration ]
  ELSE IF image.match = None
  THEN [ token |-> create_unknown_token(clef, alteration),
         clef |-> clef, alteration |-> alteration ]
  ELSE [ token |-> identify_token_from_match(image.match, clef, alteration).token,
         clef |-> clef, alteration |-> alteration ]

\* parse_image: NoToken when the file does not exist, UNKNOWN when the
\* matcher finds nothing.
parse_image(image, clef, alteration) ==
  IF ~image.exists
  THEN [ token |-> NoToken, clef |-> clef, alteration |-> alteration ]
  ELSE IF image.match = None
  THEN [ token |-> create_unknown_token(clef, alteration),
         clef |-> clef, alteration |-> alteration ]
  ELSE identify_token_from_match(image.match, clef, alteration)

(***************************************************************************)
(* The token source.  A cell of the sheet holds a piece of text, which     *)
(* _process_text_content lexes, or an image, which _process_image_content  *)
(* hands to the classifier.  A text cell of the model holds one lexeme: a  *)
(* punctuation mark, a digit, a word or a character that is none of these. *)
(* An image cell holds the reference image the matcher finds for it (None  *)
(* when it finds none) and whether the extracted file exists.              *)
(***************************************************************************)
Cell(kind, content, exists) ==
  [ kind |-> kind, content |-> content, exists |-> exists ]

\* str.isalpha on one character
Letters ==
  { "A", "B", "C", "D", "E", "F", "G", "H", "I", "J", "K", "L", "M", "N", "O",
    "P", "Q", "R", "S", "T", "U", "V", "W", "X", "Y", "Z", "a", "b", "c", "d",
    "e", "f", "g", "h", "i", "j", "k", "l", "m", "n", "o", "p", "q", "r", "s",
    "t", "u", "v", "w", "x", "y", "z" }

\* str.isdigit on one character
Digits == { DigitStr[i] : i \in 1..Len(DigitStr) }

\* The keyword of lines 128-133: the longest run of letters and digits that
\* begins the text.
RECURSIVE Keyword(_)
Keyword(text) ==
  IF text # "" /\ SubSeq(text, 1, 1) \in Letters \cup Digits
  THEN SubSeq(text, 1, 1) \o Keyword(SubSeq(text, 2, Len(text)))
  ELSE ""

\* _process_text_content, lines 114-146, on the text of a cell
Lex(text) ==
  LET char == SubSeq(text, 1, 1)
  IN  IF char = ":" THEN Token("COLON", None, "NONE", "NONE")
      ELSE IF char = "." THEN Token("PERIOD", None, "NONE", "NONE")
      ELSE IF char = ";" THEN Token("SEMICOLON", None, "NONE", "NONE")
      ELSE IF char \in Digits
      THEN Token("METER", index(DigitStr, char), "NONE", "NONE")
      ELSE IF char \in Letters
      THEN LET keyword == Keyword(text)
           IN  IF keyword = "Nom" THEN Token("NAME", None, "NONE", "NONE")
               ELSE IF keyword = "Instrument"
               THEN Token("INSTRUMENT", None, "NONE", "NONE")
               ELSE IF keyword = "FIN"
               THEN Token("END_OF_PARTITION", None, "NONE", "NONE")
               ELSE Token("IDENTIFIER", keyword, "NONE", "NONE")
      ELSE Token("UNKNOWN", char, "NONE", "NONE")

\* str.isspace on one character
Whitespace == { " " }

\* Lines 107-111: the characters from the first one that is not whitespace.
RECURSIVE SkipWhitespace(_)
SkipWhitespace(chars) ==
  IF chars # "" /\ SubSeq(chars, 1, 1) \in Whitespace
  THEN SkipWhitespace(SubSeq(chars, 2, Len(chars)))
  ELSE chars

\* The characters of chars from the second on.
Rest(chars) == IF chars = "" THEN "" ELSE SubSeq(chars, 2, Len(chars))

\* Lines 128-133: what the keyword loop leaves of the characters.  The loop
\* ends on the first character that is neither a letter nor a digit, which
\* read_next_char has taken from the iterator.
AfterKeyword(chars) ==
  Rest(SubSeq(chars, Len(Keyword(chars)) + 1, Len(chars)))

\* _process_text_content on the characters the iterator of the cell still
\* holds: the token made and the characters left, NoToken when the cell is
\* exhausted (lines 102-104 and 109-111, where the reader has moved to the
\* next cell).
process_text_content(chars) ==
  LET from == SkipWhitespace(chars)
  IN  IF from = "" THEN [ token |-> NoToken, rest |-> "" ]
      ELSE [ token |-> Lex(from),
             rest  |-> IF SubSeq(from, 1, 1) \in Letters
                       THEN AfterKeyword(from)
                       ELSE Rest(from) ]

\* The iterator of a cell after n pulls; _move_to_next_cell makes it of the
\* text and one space (excel_parser.py line 101).
RECURSIVE current_text_iter(_, _)
current_text_iter(text, n) ==
  IF n = 0 THEN text \o " "
  ELSE process_text_content(current_text_iter(text, n - 1)).rest

\* The text cells of the drafts.
TextCells ==
  { Cell("text", text, TRUE) :
      text \in { "Nom", ":", "Test", ";", "Instrument", "Piano", ".", "FIN",
                 "1", "2", "?" } }

\* The pitch images of the drafts: under the two clefs and the three
\* alterations their entries are empty, SOL_TOKEN-prefixed and
\* FA_TOKEN-prefixed.
PitchImages == { "Note_H2.JPG", "Note_H15.JPG" }

\* The image cells of the drafts: the eight structural images, the pitch
\* images, an image the matcher finds no reference for, and an image whose
\* extracted file is missing.
ImageCells ==
  { Cell("image", REFERENCE_IMAGES[i], TRUE) : i \in 17..24 }
  \cup { Cell("image", m, TRUE) : m \in PitchImages }
  \cup { Cell("image", None, TRUE), Cell("image", None, FALSE) }

\* The sixteen pitch images.
PitchCells == { Cell("image", REFERENCE_IMAGES[i], TRUE) : i \in 1..16 }

\* The header of the scores: Nom : Test ; Instrument : Piano .
StandardHeader ==
  << Cell("text", "Nom", TRUE), Cell("text", ":", TRUE),
     Cell("text", "Test", TRUE), Cell("text", ";", TRUE),
     Cell("text", "Instrument", TRUE), Cell("text", ":", TRUE),
     Cell("text", "Piano", TRUE), Cell("text", ".", TRUE) >>

\* The cells of the scores after the header.
ScoreCells ==
  { Cell("text", text, TRUE) : text \in { "FIN", "1", "2" } }
  \cup { Cell("image", m, TRUE) :
           m \in { "Note_CLE_SOL.JPG", "Note_CLE_FA.JPG", "Note_PAUSE.JPG",
                   "BATON_MESURE.JPG", "BATON_FIN_PORTEE.JPG",
                   "Alteration_DIESE.JPG", "Note_H2.JPG", None } }

(***************************************************************************)
(* The grammar of the notation (spec.md 4.3), as the automaton of its      *)
(* regular language over token kinds:                                      *)
(*   Partition := NAME COLON IDENTIFIER SEMICOLON                          *)
(*                INSTRUMENT COLON IDENTIFIER PERIOD                       *)
(*                Staff* END_OF_PARTITION                                  *)
(*   Staff     := (CLEF_SOL | CLEF_FA) METER? Measure                      *)
(*                (MEASURE_BAR Measure)* END_STAFF_BAR                     *)
(*   Measure   := Symbol+                                                  *)
(*   Symbol    := (ALTERATION_DIESE | ALTERATION_BEMOL)? NOTE              *)
(*                | PAUSE | HALF_PAUSE                                     *)
(* States: <<"header", k>> after k header tokens; "staffs" where a staff   *)
(* or END_OF_PARTITION may come; "clef" after a clef; "measure" where a    *)
(* measure must begin; "alteration" after an accidental; "symbol" after a  *)
(* whole symbol; "sentence" once a prefix is a sentence; "dead" once no    *)
(* continuation is one.                                                    *)
(***************************************************************************)
GrammarHeader ==
  << "NAME", "COLON", "IDENTIFIER", "SEMICOLON",
     "INSTRUMENT", "COLON", "IDENTIFIER", "PERIOD" >>

G(name, k) == [ name |-> name, k |-> k ]

GrammarSymbolStart(q, type) ==
  IF type \in { "ALTERATION_DIESE", "ALTERATION_BEMOL" } THEN G("alteration", 0)
  ELSE IF type \in { "NOTE", "PAUSE", "HALF_PAUSE" } THEN G("symbol", 0)
  ELSE G("dead", 0)

GrammarStep(q, type) ==
  CASE q.name = "header" ->
         IF type = GrammarHeader[q.k + 1]
         THEN (IF q.k = 7 THEN G("staffs", 0) ELSE G("header", q.k + 1))
         ELSE G("dead", 0)
    [] q.name = "staffs" ->
         IF type \in { "CLEF_SOL", "CLEF_FA" } THEN G("clef", 0)
         ELSE IF type = "END_OF_PARTITION" THEN G("sentence", 0)
         ELSE G("dead", 0)
    [] q.name = "clef" ->
         IF type = "METER" THEN G("measure", 0) ELSE GrammarSymbolStart(q, type)
    [] q.name = "measure" -> GrammarSymbolStart(q, type)
    [] q.name = "alteration" ->
         IF type = "NOTE" THEN G("symbol", 0) ELSE G("dead", 0)
    [] q.name = "symbol" ->
         IF type = "MEASURE_BAR" THEN G("measure", 0)
         ELSE IF type = "END_STAFF_BAR" THEN G("staffs", 0)
         ELSE GrammarSymbolStart(q, type)
    [] OTHER -> q

RECURSIVE GrammarRun(_, _)
GrammarRun(q, tokens) ==
  IF tokens = << >> THEN q
  ELSE GrammarRun(GrammarStep(q, Head(tokens).type), Tail(tokens))

\* The state of the grammar after the tokens: "sentence" when a prefix of
\* them is a sentence, "dead" when no sequence that begins with them has a
\* prefix that is one.
Grammar(tokens) == GrammarRun(G("header", 0), tokens).name

\* The number of cells from the first one that breaks the grammar on.
RECURSIVE CellsFromViolationRun(_, _)
CellsFromViolationRun(q, tokens) ==
  IF tokens = << >> THEN 0
  ELSE LET next == GrammarStep(q, Head(tokens).type)
       IN  IF next.name = "dead" THEN Len(tokens)
           ELSE CellsFromViolationRun(next, Tail(tokens))

CellsFromViolation(tokens) == CellsFromViolationRun(G("header", 0), tokens)

DraftSheet(cells, tokens) ==
  /\ Len(cells) <= MaxDraftCells
  /\ \A i \in 1..Len(cells) : cells[i] \in TextCells \cup ImageCells
  /\ CellsFromViolation(tokens) <= MaxAfterViolation + 1

ScoreSheet(cells, tokens) ==
  /\ Len(cells) <= MaxTokens
  /\ CellsFromViolation(tokens) <= 1
  /\ \A i \in 1..Len(cells) :
       IF i <= Len(StandardHeader)
       THEN cells[i] = StandardHeader[i]
       ELSE cells[i] \in ScoreCells

\* The minimal sheets: the header, a treble clef, one pitch image (any of the
\* sixteen), the end-of-staff bar, FIN, and one more cell of any kind.
MinimalStaff ==
  << Cell("image", "Note_CLE_SOL.JPG", TRUE), Cell("image", "Note_H1.JPG", TRUE),
     Cell("image", "BATON_FIN_PORTEE.JPG", TRUE), Cell("text", "FIN", TRUE) >>

MinimalSheet(cells) ==
  LET fixed == StandardHeader \o MinimalStaff
  IN  /\ Len(cells) <= Len(fixed) + 1
      /\ \A i \in 1..Len(cells) :
           IF i = Len(StandardHeader) + 2 THEN cells[i] \in PitchCells
           ELSE IF i <= Len(fixed) THEN cells[i] = fixed[i]
           ELSE cells[i] \in TextCells \cup ImageCells

\* The sheets of two staffs: the header, then twice a clef, a rest or a pitch
\* image and the end-of-staff bar, then FIN and one more cell.
TwoStaffSheet(cells) ==
  LET clefs   == { Cell("image", "Note_CLE_SOL.JPG", TRUE),
                   Cell("image", "Note_CLE_FA.JPG", TRUE) }
      symbols == { Cell("image", "Note_PAUSE.JPG", TRUE),
                   Cell("image", "Note_DEMI_PAUSE.JPG", TRUE),
                   Cell("image", "Note_H2.JPG", TRUE) }
      bar     == Cell("image", "BATON_FIN_PORTEE.JPG", TRUE)
      h       == Len(StandardHeader)
  IN  /\ Len(cells) <= h + 8
      /\ \A i \in 1..Len(cells) :
           IF i <= h THEN cells[i] = StandardHeader[i]
           ELSE IF i \in { h + 1, h + 4 } THEN cells[i] \in clefs
           ELSE IF i \in { h + 2, h + 5 } THEN cells[i] \in symbols
           ELSE IF i \in { h + 3, h + 6 } THEN cells[i] = bar
           ELSE IF i = h + 7 THEN cells[i] = Cell("text", "FIN", TRUE)
           ELSE cells[i] = Cell("text", ".", TRUE)

\* The sheets of the model and their prefixes: the cells, and the tokens the
\* reader makes of them.
Sheet(cells, tokens) ==
  \/ DraftSheet(cells, tokens)
  \/ ScoreSheet(cells, tokens)
  \/ MinimalSheet(cells)
  \/ TwoStaffSheet(cells)

(***************************************************************************)
(* src/parsers/music_parser.py: MusicNotationParser.                       *)
(***************************************************************************)
VARIABLES
  pc,                 \* the function and the place in it that runs next
  stack,              \* the places to return to, innermost first
  sheet,              \* the cells the reader has moved past
  delivered,          \* the tokens _read_next_token made of them
  current_token, has_error, error_message,
  partition_name, instrument_name,
  meter_value, meter_controller,
  note_tokens_fa, note_tokens_sol,
  current_clef, current_alteration,    \* image_parser's held state
  result,             \* what parse() gave its caller
  error_log,          \* logger.error of this module, in order
  warning_log,        \* logger.warning of this module, in order
  runs                \* the parse() calls made on this parser so far

vars ==
  << pc, stack, sheet, delivered, current_token, has_error, error_message,
     partition_name, instrument_name, meter_value, meter_controller,
     note_tokens_fa, note_tokens_sol, current_clef, current_alteration,
     result, error_log, warning_log, runs >>

names      == << partition_name, instrument_name >>
meter      == << meter_value, meter_controller >>
notes      == << note_tokens_fa, note_tokens_sol >>
errors     == << has_error, error_message, error_log >>
classifier == << current_clef, current_alteration >>

\* A place of the program: function fn, after its at-th call.
L(fn, at) == [ fn |-> fn, at |-> at ]

Done == L("done", 0)

Call(fn, ret) == pc' = L(fn, 0) /\ stack' = << ret >> \o stack
Goto(loc)     == pc' = loc /\ UNCHANGED stack
Return        == pc' = Head(stack) /\ stack' = Tail(stack)

\* MusicNotationParser.__init__ and NotationImageParser.__init__
Init ==
  /\ pc = L("parse", 0)
  /\ stack = << >>
  /\ sheet = << >>
  /\ delivered = << >>
  /\ current_token = NoToken
  /\ has_error = FALSE
  /\ error_message = ""
  /\ partition_name = ""
  /\ instrument_name = ""
  /\ meter_value = -1
  /\ meter_controller = -1
  /\ note_tokens_fa = << >>
  /\ note_tokens_sol = << >>
  /\ current_clef = "NONE"
  /\ current_alteration = "NONE"
  /\ result = "pending"
  /\ error_log = << >>
  /\ warning_log = << >>
  /\ runs = 1

\* A reset of the parser's own fields that leaves the classifier as it is.
reset_state_parser_only ==
  /\ current_token' = NoToken
  /\ has_error' = FALSE
  /\ error_message' = ""
  /\ partition_name' = ""
  /\ instrument_name' = ""
  /\ meter_value' = -1
  /\ meter_controller' = -1
  /\ note_tokens_fa' = << >>
  /\ note_tokens_sol' = << >>
  /\ UNCHANGED classifier

\* reset_state of the parser, which resets the classifier too
reset_state ==
  /\ current_token' = NoToken
  /\ has_error' = FALSE
  /\ error_message' = ""
  /\ partition_name' = ""
  /\ instrument_name' = ""
  /\ meter_value' = -1
  /\ meter_controller' = -1
  /\ note_tokens_fa' = << >>
  /\ note_tokens_sol' = << >>
  /\ current_clef' = "NONE"
  /\ current_alteration' = "NONE"

\* parse, lines 66-67: reset, then the first pull, outside the try block
parse ==
  /\ pc = L("parse", 0)
  /\ reset_state
  /\ Call("_read_next_token", L("parse", 1))
  /\ UNCHANGED << sheet, delivered, result, runs, error_log, warning_log >>

\* parse, line 70: inside the try block
parse_try ==
  /\ pc = L("parse", 1)
  /\ Call("_parse_partition", L("parse", 2))
  /\ UNCHANGED << sheet, delivered, current_token, names, meter, notes, errors,
                  classifier, result, runs, warning_log >>

\* parse, line 71: return not self.has_error
parse_return ==
  /\ pc = L("parse", 2)
  /\ result' = IF has_error THEN "False" ELSE "True"
  /\ pc' = Done
  /\ UNCHANGED << stack, sheet, delivered, current_token, names, meter, notes,
                  errors, classifier, warning_log, runs >>

\* The try block of parse is on the stack: an exception is caught there.
InTry == \E i \in 1..Len(stack) : stack[i] = L("parse", 2)

\* Lines 120-125 and 143: the token becomes the current token, and a digit
\* sets the meter as it is lexed.
ProcessText(tok) ==
  /\ current_token' = tok
  /\ IF tok.type = "METER"
     THEN meter_value' = tok.value /\ meter_controller' = tok.value
     ELSE UNCHANGED meter
  /\ UNCHANGED classifier

\* _read_next_token on a text cell (_process_text_content)
read_text ==
  /\ pc = L("_read_next_token", 0)
  /\ \E cell \in TextCells :
       LET tok == Lex(cell.content)
       IN  /\ Sheet(Append(sheet, cell), Append(delivered, tok))
           /\ ProcessText(tok)
           /\ sheet' = Append(sheet, cell)
           /\ delivered' = Append(delivered, tok)
  /\ Return
  /\ UNCHANGED << names, notes, errors, result, runs, warning_log >>

\* The token as parse_image gave it.
ImageTokenAsGiven(tok) == tok

\* Lines 157-160: a missing token becomes a bare UNKNOWN token.
ImageToken(tok) ==
  IF tok = NoToken THEN Token("UNKNOWN", None, "NONE", "NONE") ELSE tok

\* _read_next_token on an image cell (_process_image_content)
read_image ==
  /\ pc = L("_read_next_token", 0)
  /\ \E cell \in ImageCells \cup PitchCells :
       LET r   == parse_image([ exists |-> cell.exists, match |-> cell.content ],
                              current_clef, current_alteration)
           tok == ImageToken(r.token)
       IN  /\ Sheet(Append(sheet, cell), Append(delivered, tok))
           /\ current_token' = tok
           /\ current_clef' = r.clef
           /\ current_alteration' = r.alteration
           /\ sheet' = Append(sheet, cell)
           /\ delivered' = Append(delivered, tok)
  /\ Return
  /\ UNCHANGED << names, meter, notes, errors, result, runs, warning_log >>

\* A cell with neither text nor an image.
EmptyCell == Cell("empty", None, TRUE)

\* _read_next_token on a cell with neither text nor an image, lines 93-96:
\* move_to_next_empty_cell (excel_parser.py 174-181) advances only while the
\* cell has content, so the reader stays on the empty cell and the call of
\* line 96 repeats until the interpreter raises RecursionError.  parse
\* catches it only inside its try block.
read_empty ==
  /\ pc = L("_read_next_token", 0)
  /\ sheet' = Append(sheet, EmptyCell)
  /\ IF InTry
     THEN /\ has_error' = TRUE
          /\ error_message' = "Unexpected error during parsing: fault"
          /\ error_log' = Append(error_log, "Parsing error: fault")
          /\ result' = "False"
     ELSE /\ result' = "raised"
          /\ UNCHANGED errors
  /\ pc' = Done
  /\ stack' = << >>
  /\ UNCHANGED << delivered, current_token, names, meter, notes, classifier,
                  runs, warning_log >>

\* _read_next_token when the source raises: the reader or the matcher fails
\* on the cell.  parse catches it only inside its try block.
read_fault ==
  /\ pc = L("_read_next_token", 0)
  /\ IF InTry
     THEN /\ has_error' = TRUE
          /\ error_message' = "Unexpected error during parsing: fault"
          /\ error_log' = Append(error_log, "Parsing error: fault")
          /\ result' = "False"
     ELSE /\ result' = "raised"
          /\ UNCHANGED errors
  /\ pc' = Done
  /\ stack' = << >>
  /\ UNCHANGED << sheet, delivered, current_token, names, meter, notes, classifier,
                  warning_log, runs >>

\* An _error that sets the flag and writes the log line and leaves the
\* message.
_error_without_message(context) ==
  LET message == "Syntax error in " \o context \o ": Unexpected token "
                 \o TokenStr(current_token)
  IN  /\ has_error' = TRUE
      /\ error_log' = Append(error_log, message)
      /\ UNCHANGED error_message

\* An _error that writes the message and the log line and leaves the flag.
_error_without_flag(context) ==
  LET message == "Syntax error in " \o context \o ": Unexpected token "
                 \o TokenStr(current_token)
  IN  /\ has_error' = has_error
      /\ error_message' = message
      /\ error_log' = Append(error_log, message)

\* _error: the flag, the message (overwritten) and the log line
_error(context) ==
  LET message == "Syntax error in " \o context \o ": Unexpected token "
                 \o TokenStr(current_token)
  IN  /\ has_error' = TRUE
      /\ error_message' = message
      /\ error_log' = Append(error_log, message)

\* _expect inside a function that returns on a mismatch and goes on to the
\* place ok once the next token is read
_expect(expected_type, context, ok) ==
  IF current_token.type # expected_type
  THEN /\ _error(context \o " (expected " \o expected_type \o ", got "
                 \o current_token.type \o ")")
       /\ Return
  ELSE /\ Call("_read_next_token", ok)
       /\ UNCHANGED errors

\* The eight expectations of the header, lines 195-229.
PartitionHeader ==
  << [ type |-> "NAME",       context |-> "partition name declaration" ],
     [ type |-> "COLON",      context |-> "partition name declaration" ],
     [ type |-> "IDENTIFIER", context |-> "partition name" ],
     [ type |-> "SEMICOLON",  context |-> "partition name terminator" ],
     [ type |-> "INSTRUMENT", context |-> "instrument declaration" ],
     [ type |-> "COLON",      context |-> "instrument declaration" ],
     [ type |-> "IDENTIFIER", context |-> "instrument name" ],
     [ type |-> "PERIOD",     context |-> "instrument declaration terminator" ] >>

\* The value line 207 stores once the IDENTIFIER after NAME COLON has matched
\* (the third expectation), read after _expect has pulled the next token.
PartitionNameAt(k, old) == IF k = 3 THEN current_token.value ELSE old

\* The value line 225 stores once the IDENTIFIER after INSTRUMENT COLON has
\* matched (the seventh expectation).
InstrumentNameAt(k, old) == IF k = 7 THEN current_token.value ELSE old

\* _parse_partition, lines 195-229: after k matched expectations
parse_partition_header ==
  /\ \E k \in 0..7 :
       /\ pc = L("_parse_partition", k)
       /\ partition_name' = PartitionNameAt(k, partition_name)
       /\ instrument_name' = InstrumentNameAt(k, instrument_name)
       /\ _expect(PartitionHeader[k + 1].type, PartitionHeader[k + 1].context,
                  L("_parse_partition", k + 1))
  /\ UNCHANGED << sheet, delivered, current_token, meter, notes, classifier, result, runs,
                  warning_log >>

\* _parse_partition, line 232
parse_partition_staffs ==
  /\ pc = L("_parse_partition", 8)
  /\ Call("_parse_multiple_staffs", L("_parse_partition", 9))
  /\ UNCHANGED << sheet, delivered, current_token, names, meter, notes, errors,
                  classifier, result, runs, warning_log >>

\* _parse_partition, lines 235-236, and the return after the last pull
parse_partition_end ==
  /\ \/ /\ pc = L("_parse_partition", 9)
        /\ _expect("END_OF_PARTITION", "end of partition",
                   L("_parse_partition", 10))
     \/ /\ pc = L("_parse_partition", 10)
        /\ Return
        /\ UNCHANGED errors
  /\ UNCHANGED << sheet, delivered, current_token, names, meter, notes, classifier,
                  result, runs, warning_log >>

\* _parse_multiple_staffs, lines 242-251
parse_multiple_staffs ==
  /\ pc = L("_parse_multiple_staffs", 0)
  /\ IF current_token.type = "END_OF_PARTITION"
     THEN Return /\ UNCHANGED errors
     ELSE IF current_token.type \in { "CLEF_SOL", "CLEF_FA" }
     THEN Call("_parse_staff", L("_parse_multiple_staffs", 1)) /\ UNCHANGED errors
     ELSE _error("multiple staffs") /\ Return
  /\ UNCHANGED << sheet, delivered, current_token, names, meter, notes, classifier,
                  result, runs, warning_log >>

\* A return from a staff that leaves the meter as the staff set it.
parse_multiple_staffs_next_keeping_meter ==
  /\ \/ /\ pc = L("_parse_multiple_staffs", 1)
        /\ Call("_parse_multiple_staffs", L("_parse_multiple_staffs", 2))
     \/ /\ pc = L("_parse_multiple_staffs", 2)
        /\ Return
  /\ UNCHANGED << sheet, delivered, current_token, names, meter, notes, errors,
                  classifier, result, runs, warning_log >>

\* _parse_multiple_staffs, lines 247-249: the meter is unset, then the next
\* staffs; the place after that call only returns
parse_multiple_staffs_next ==
  /\ \/ /\ pc = L("_parse_multiple_staffs", 1)
        /\ meter_value' = -1
        /\ meter_controller' = -1
        /\ Call("_parse_multiple_staffs", L("_parse_multiple_staffs", 2))
     \/ /\ pc = L("_parse_multiple_staffs", 2)
        /\ Return
        /\ UNCHANGED meter
  /\ UNCHANGED << sheet, delivered, current_token, names, notes, errors, classifier,
                  result, runs, warning_log >>

\* _parse_staff, lines 258-265
parse_staff ==
  /\ \/ /\ pc = L("_parse_staff", 0)
        /\ Call("_read_next_token", L("_parse_staff", 1))
     \/ /\ pc = L("_parse_staff", 1)
        /\ Call("_parse_meter", L("_parse_staff", 2))
     \/ /\ pc = L("_parse_staff", 2)
        /\ Call("_parse_measures", L("_parse_staff", 3))
     \/ /\ pc = L("_parse_staff", 3)
        /\ Return
  /\ UNCHANGED << sheet, delivered, current_token, names, meter, notes, errors,
                  classifier, result, runs, warning_log >>

\* The symbol kinds without the whole rest.
symbol_types_without_pause ==
  { "ALTERATION_DIESE", "ALTERATION_BEMOL", "HALF_PAUSE", "NOTE" }

\* The symbol kinds of lines 273-276 and 379-382.
symbol_types ==
  { "ALTERATION_DIESE", "ALTERATION_BEMOL", "PAUSE", "HALF_PAUSE", "NOTE" }

\* _parse_meter, lines 271-280; the place after the pull only returns
parse_meter ==
  /\ \/ /\ pc = L("_parse_meter", 0)
        /\ IF current_token.type = "METER"
           THEN Call("_read_next_token", L("_parse_meter", 1)) /\ UNCHANGED errors
           ELSE IF current_token.type \in symbol_types
           THEN Return /\ UNCHANGED errors
           ELSE _error("meter") /\ Return
     \/ /\ pc = L("_parse_meter", 1)
        /\ Return
        /\ UNCHANGED errors
  /\ UNCHANGED << sheet, delivered, current_token, names, meter, notes, classifier,
                  result, runs, warning_log >>

\* _parse_measures, lines 286-290
parse_measures ==
  /\ \/ /\ pc = L("_parse_measures", 0)
        /\ Call("_parse_measure", L("_parse_measures", 1))
        /\ UNCHANGED errors
     \/ /\ pc = L("_parse_measures", 1)
        /\ Call("_parse_additional_measures", L("_parse_measures", 2))
        /\ UNCHANGED errors
     \/ /\ pc = L("_parse_measures", 2)
        /\ _expect("END_STAFF_BAR", "end of staff", L("_parse_measures", 3))
     \/ /\ pc = L("_parse_measures", 3)
        /\ Return
        /\ UNCHANGED errors
  /\ UNCHANGED << sheet, delivered, current_token, names, meter, notes, classifier,
                  result, runs, warning_log >>

\* Whether line 299 finds the measure's content not to match the meter.
MeterMismatch(value, controller) == value # -1 /\ controller # 0

\* _parse_measure, lines 296-302
parse_measure ==
  /\ \/ /\ pc = L("_parse_measure", 0)
        /\ Call("_parse_symbols", L("_parse_measure", 1))
        /\ UNCHANGED << meter, warning_log >>
     \/ /\ pc = L("_parse_measure", 1)
        /\ IF MeterMismatch(meter_value, meter_controller)
           THEN /\ warning_log' = Append(warning_log,
                     "Semantic error: Measure content does not match meter value "
                     \o DigitStr[meter_value + 1])
                /\ meter_controller' = meter_value
                /\ UNCHANGED meter_value
           ELSE UNCHANGED << meter, warning_log >>
        /\ Return
  /\ UNCHANGED << sheet, delivered, current_token, names, notes, errors, classifier,
                  result, runs >>

\* _parse_symbols, lines 308-309
parse_symbols ==
  /\ \/ /\ pc = L("_parse_symbols", 0)
        /\ Call("_parse_symbol", L("_parse_symbols", 1))
     \/ /\ pc = L("_parse_symbols", 1)
        /\ Call("_parse_additional_symbols", L("_parse_symbols", 2))
     \/ /\ pc = L("_parse_symbols", 2)
        /\ Return
  /\ UNCHANGED << sheet, delivered, current_token, names, meter, notes, errors,
                  classifier, result, runs, warning_log >>

\* A counter that goes down by one at every symbol.
DecrementAlways(controller) == controller - 1

\* Lines 316-317: the live counter goes down by one while it is positive.
Decrement(controller) == IF controller > 0 THEN controller - 1 ELSE controller

\* A _parse_symbol that returns without pulling the next token.
parse_symbol_without_pull ==
  /\ \/ /\ pc = L("_parse_symbol", 0)
        /\ meter_controller' = Decrement(meter_controller)
        /\ UNCHANGED meter_value
        /\ IF current_token.type \in
                { "ALTERATION_DIESE", "ALTERATION_BEMOL", "NOTE" }
           THEN Call("_parse_note", L("_parse_symbol", 1)) /\ UNCHANGED errors
           ELSE IF current_token.type \in { "PAUSE", "HALF_PAUSE" }
           THEN Call("_parse_silence", L("_parse_symbol", 1)) /\ UNCHANGED errors
           ELSE _error("symbol") /\ Goto(L("_parse_symbol", 1))
     \/ /\ pc \in { L("_parse_symbol", 1), L("_parse_symbol", 2) }
        /\ Return
        /\ UNCHANGED << meter, errors >>
  /\ UNCHANGED << sheet, delivered, current_token, names, notes, classifier, result, runs,
                  warning_log >>

\* _parse_symbol, lines 316-326
parse_symbol ==
  /\ \/ /\ pc = L("_parse_symbol", 0)
        /\ meter_controller' = Decrement(meter_controller)
        /\ UNCHANGED meter_value
        /\ IF current_token.type \in
                { "ALTERATION_DIESE", "ALTERATION_BEMOL", "NOTE" }
           THEN Call("_parse_note", L("_parse_symbol", 1)) /\ UNCHANGED errors
           ELSE IF current_token.type \in { "PAUSE", "HALF_PAUSE" }
           THEN Call("_parse_silence", L("_parse_symbol", 1)) /\ UNCHANGED errors
           ELSE _error("symbol") /\ Goto(L("_parse_symbol", 1))
     \/ /\ pc = L("_parse_symbol", 1)
        /\ Call("_read_next_token", L("_parse_symbol", 2))
        /\ UNCHANGED << meter, errors >>
     \/ /\ pc = L("_parse_symbol", 2)
        /\ Return
        /\ UNCHANGED << meter, errors >>
  /\ UNCHANGED << sheet, delivered, current_token, names, notes, classifier, result, runs,
                  warning_log >>

\* _parse_note, lines 333-336
parse_note ==
  /\ \/ /\ pc = L("_parse_note", 0)
        /\ Call("_parse_alteration", L("_parse_note", 1))
     \/ /\ pc = L("_parse_note", 1)
        /\ Call("_parse_note_height", L("_parse_note", 2))
     \/ /\ pc = L("_parse_note", 2)
        /\ Return
  /\ UNCHANGED << sheet, delivered, current_token, names, meter, notes, errors,
                  classifier, result, runs, warning_log >>

\* _parse_alteration, lines 342-345; the place after the pull only returns
parse_alteration ==
  /\ \/ /\ pc = L("_parse_alteration", 0)
        /\ IF current_token.type \in { "ALTERATION_DIESE", "ALTERATION_BEMOL" }
           THEN Call("_read_next_token", L("_parse_alteration", 1))
                /\ UNCHANGED errors
           ELSE IF current_token.type # "NOTE"
           THEN _error("alteration") /\ Return
           ELSE Return /\ UNCHANGED errors
     \/ /\ pc = L("_parse_alteration", 1)
        /\ Return
        /\ UNCHANGED errors
  /\ UNCHANGED << sheet, delivered, current_token, names, meter, notes, classifier,
                  result, runs, warning_log >>

\* An insertion at the front of the list.
prepend(list, entry) == << entry >> \o list

\* list.append
append(list, entry) == Append(list, entry)

\* Lines 355 and 358: f"{note_token}_{self.instrument_name}"
note_with_instrument(note_token, instrument) ==
  note_token \o "_" \o PyStr("IDENTIFIER", instrument)

\* A choice of sequence with the two sequences exchanged.
NoteGoesToFaSwapped(note_token) == ~startswith(note_token, "FA_TOKEN")

\* Line 354: the sequence a resolved note symbol goes to.
NoteGoesToFa(note_token) == startswith(note_token, "FA_TOKEN")

\* _parse_note_height, lines 351-361
parse_note_height ==
  /\ pc = L("_parse_note_height", 0)
  /\ IF current_token.type = "NOTE"
     THEN /\ LET note_token == current_token.value
             IN  IF note_token # None /\ note_token # ""
                 THEN IF NoteGoesToFa(note_token)
                      THEN /\ note_tokens_fa' = append(note_tokens_fa,
                                  note_with_instrument(note_token, instrument_name))
                           /\ UNCHANGED note_tokens_sol
                      ELSE /\ note_tokens_sol' = append(note_tokens_sol,
                                  note_with_instrument(note_token, instrument_name))
                           /\ UNCHANGED note_tokens_fa
                 ELSE UNCHANGED notes
          /\ UNCHANGED errors
     ELSE _error("note height") /\ UNCHANGED notes
  /\ Return
  /\ UNCHANGED << sheet, delivered, current_token, names, meter, classifier, result, runs,
                  warning_log >>

\* A _parse_silence that gives the rest the instrument suffix of a note.
parse_silence_with_instrument ==
  /\ pc = L("_parse_silence", 0)
  /\ LET silence_type == note_with_instrument(current_token.type, instrument_name)
     IN  IF current_token.clef = "FA"
         THEN /\ note_tokens_fa' = append(note_tokens_fa, silence_type)
              /\ UNCHANGED note_tokens_sol
         ELSE /\ note_tokens_sol' = append(note_tokens_sol, silence_type)
              /\ UNCHANGED note_tokens_fa
  /\ Return
  /\ UNCHANGED << sheet, delivered, current_token, names, meter, errors, classifier,
                  result, runs, warning_log >>

\* A _parse_silence that adds every rest to the SOL sequence.
parse_silence_to_sol ==
  /\ pc = L("_parse_silence", 0)
  /\ note_tokens_sol' = append(note_tokens_sol, current_token.type)
  /\ Return
  /\ UNCHANGED << sheet, delivered, current_token, names, meter, note_tokens_fa,
                  errors, classifier, result, runs, warning_log >>

\* A _parse_silence that adds the rest to both sequences.
parse_silence_in_both ==
  /\ pc = L("_parse_silence", 0)
  /\ note_tokens_fa' = append(note_tokens_fa, current_token.type)
  /\ note_tokens_sol' = append(note_tokens_sol, current_token.type)
  /\ Return
  /\ UNCHANGED << sheet, delivered, current_token, names, meter, errors, classifier,
                  result, runs, warning_log >>

\* _parse_silence, lines 369-373
parse_silence ==
  /\ pc = L("_parse_silence", 0)
  /\ LET silence_type == current_token.type
     IN  IF current_token.clef = "FA"
         THEN /\ note_tokens_fa' = append(note_tokens_fa, silence_type)
              /\ UNCHANGED note_tokens_sol
         ELSE /\ note_tokens_sol' = append(note_tokens_sol, silence_type)
              /\ UNCHANGED note_tokens_fa
  /\ Return
  /\ UNCHANGED << sheet, delivered, current_token, names, meter, errors, classifier,
                  result, runs, warning_log >>

\* The kinds that end the symbols of a measure without an error, lines 387-390.
symbols_end_types ==
  { "END_STAFF_BAR", "MEASURE_BAR", "CLEF_SOL", "CLEF_FA", "END_OF_PARTITION" }

\* _parse_additional_symbols, lines 384-391
parse_additional_symbols ==
  /\ \/ /\ pc = L("_parse_additional_symbols", 0)
        /\ IF current_token.type \in symbol_types
           THEN Call("_parse_symbol", L("_parse_additional_symbols", 1))
                /\ UNCHANGED errors
           ELSE IF current_token.type \notin symbols_end_types
           THEN _error("additional symbols") /\ Return
           ELSE Return /\ UNCHANGED errors
     \/ /\ pc = L("_parse_additional_symbols", 1)
        /\ Call("_parse_additional_symbols", L("_parse_additional_symbols", 2))
        /\ UNCHANGED errors
     \/ /\ pc = L("_parse_additional_symbols", 2)
        /\ Return
        /\ UNCHANGED errors
  /\ UNCHANGED << sheet, delivered, current_token, names, meter, notes, classifier,
                  result, runs, warning_log >>

\* _parse_additional_measures, lines 397-402
parse_additional_measures ==
  /\ \/ /\ pc = L("_parse_additional_measures", 0)
        /\ IF current_token.type = "MEASURE_BAR"
           THEN Call("_read_next_token", L("_parse_additional_measures", 1))
                /\ UNCHANGED errors
           ELSE IF current_token.type # "END_STAFF_BAR"
           THEN _error("additional measures") /\ Return
           ELSE Return /\ UNCHANGED errors
     \/ /\ pc = L("_parse_additional_measures", 1)
        /\ Call("_parse_measure", L("_parse_additional_measures", 2))
        /\ UNCHANGED errors
     \/ /\ pc = L("_parse_additional_measures", 2)
        /\ Call("_parse_additional_measures", L("_parse_additional_measures", 3))
        /\ UNCHANGED errors
     \/ /\ pc = L("_parse_additional_measures", 3)
        /\ Return
        /\ UNCHANGED errors
  /\ UNCHANGED << sheet, delivered, current_token, names, meter, notes, classifier,
                  result, runs, warning_log >>

Next ==
  \/ parse
  \/ parse_try
  \/ parse_return
  \/ read_text
  \/ read_image
  \/ read_fault
  \/ read_empty
  \/ parse_partition_header
  \/ parse_partition_staffs
  \/ parse_partition_end
  \/ parse_multiple_staffs
  \/ parse_multiple_staffs_next
  \/ parse_staff
  \/ parse_meter
  \/ parse_measures
  \/ parse_measure
  \/ parse_symbols
  \/ parse_symbol
  \/ parse_note
  \/ parse_alteration
  \/ parse_note_height
  \/ parse_silence
  \/ parse_additional_symbols
  \/ parse_additional_measures

Spec == Init /\ [][Next]_vars

\* A pull of the next token, whatever the reader is on.
Pull == read_fault \/ read_empty \/ read_text \/ read_image

\* A step of parse() or of a grammar function other than a pull.
ParserStep ==
  \/ parse \/ parse_try \/ parse_return
  \/ parse_partition_header \/ parse_partition_staffs \/ parse_partition_end
  \/ parse_multiple_staffs \/ parse_multiple_staffs_next \/ parse_staff
  \/ parse_meter \/ parse_measures \/ parse_measure \/ parse_symbols
  \/ parse_symbol \/ parse_note \/ parse_alteration \/ parse_note_height
  \/ parse_silence \/ parse_additional_symbols \/ parse_additional_measures

\* One call of parse() that the interpreter runs on as long as a step is
\* possible, on a reader that answers every pull (with a token or a fault).
SpecFair == Spec /\ WF_vars(ParserStep) /\ WF_vars(Pull)

(***************************************************************************)
(* The parser used a second time: parse() on a stream A, then parse() on a *)
(* stream B with the same parser and classifier.                           *)
(***************************************************************************)
\* parse, lines 66-67, called on a parser whose first parse is over: the
\* reader holds stream B, and the caller and the log start anew.
parse_again ==
  /\ pc = Done
  /\ runs = 1
  /\ runs' = runs + 1
  /\ reset_state
  /\ Call("_read_next_token", L("parse", 1))
  /\ sheet' = << >>
  /\ delivered' = << >>
  /\ result' = "pending"
  /\ error_log' = << >>
  /\ warning_log' = << >>

NextReuse == Next \/ parse_again

SpecReuse == Init /\ [][NextReuse]_vars

(***************************************************************************)
(* The classifier and get_token_type_from_string on their own: the         *)
(* classifier starts with any held clef and alteration and classifies up   *)
(* to MaxClassified images; sheet lists the images (or the name looked     *)
(* up), delivered what was returned for each.  The lexer on its own: sheet *)
(* is the one text cell, delivered the tokens the pulls on it have made.   *)
(***************************************************************************)
\* An identifier that is none of the 24 reference images.
ForeignImage == "Other.JPG"

\* What parse_image may be given: a file that is missing, or a file and the
\* matcher's answer for it.
ClassifierImages ==
  { [ exists |-> TRUE, match |-> REFERENCE_IMAGES[i] ] : i \in 1..24 }
  \cup { [ exists |-> TRUE, match |-> None ],
         [ exists |-> TRUE, match |-> ForeignImage ],
         [ exists |-> FALSE, match |-> None ] }

\* The entries of the six pitch tables.
PitchTables ==
  { SOL_TOKENS, FA_TOKENS, SOL_SHARP_TOKENS, FA_SHARP_TOKENS,
    FA_BEMOL_TOKENS, SOL_BEMOL_TOKENS }

PitchEntries == { table[i] : table \in PitchTables, i \in 1..16 }

\* The names looked up: the keyword table's, the entries of the pitch
\* tables, and strings that are neither.
TokenStrings ==
  DOMAIN token_mapping \cup PitchEntries
  \cup { "SOL_TOKEN", "FA_TOKEN", "SOL_TOKEN_X", "FA_TOKENS", "SOL_TOKE",
         "FA_TOKE", "sol_token_do", "XFA_TOKEN_DO", "_SOL_TOKEN", "NOTE",
         "TOKEN_NOTE", "TOKEN_NOM_", "token_nom", "CLEF_SOL" }

InitFunctions ==
  /\ pc = L("functions", 0)
  /\ stack = << >>
  /\ sheet = << >>
  /\ delivered = << >>
  /\ current_token = NoToken
  /\ has_error = FALSE
  /\ error_message = ""
  /\ partition_name = ""
  /\ instrument_name = ""
  /\ meter_value = -1
  /\ meter_controller = -1
  /\ note_tokens_fa = << >>
  /\ note_tokens_sol = << >>
  /\ current_clef \in ClefType
  /\ current_alteration \in AlterationType
  /\ result = "pending"
  /\ error_log = << >>
  /\ warning_log = << >>
  /\ runs = 1

\* NotationImageParser.parse_image on one more image
classify ==
  /\ pc = L("functions", 0)
  /\ Len(sheet) < MaxClassified
  /\ \E image \in ClassifierImages :
       LET r == parse_image(image, current_clef, current_alteration)
       IN  /\ sheet' = Append(sheet, Cell("image", image.match, image.exists))
           /\ delivered' = Append(delivered, r.token)
           /\ current_clef' = r.clef
           /\ current_alteration' = r.alteration
  /\ UNCHANGED << pc, stack, current_token, names, meter, notes, errors, result,
                  runs, warning_log >>

\* get_token_type_from_string on one name
token_type ==
  /\ pc = L("functions", 0)
  /\ sheet = << >>
  /\ \E token_str \in TokenStrings :
       /\ sheet' = << Cell("text", token_str, TRUE) >>
       /\ delivered' = << Token(get_token_type_from_string(token_str), token_str,
                                "NONE", "NONE") >>
  /\ pc' = Done
  /\ UNCHANGED << stack, current_token, names, meter, notes, errors, classifier,
                  result, runs, warning_log >>

\* The characters of the texts lexed alone.
LexChars == { "a", "1", ":", ";", ".", " ", "?" }

RECURSIVE Join(_)
Join(chars) == IF chars = << >> THEN "" ELSE Head(chars) \o Join(Tail(chars))

\* The texts lexed alone: every text of at most MaxTextLen of these
\* characters, and texts of the header.
LexTexts ==
  { Join(chars) : chars \in UNION { [ 1..n -> LexChars ] : n \in 1..MaxTextLen } }
  \cup { "Nom:", "Nom :", "Nom: Test;", "Instrument:Piano.", "Piano.", "FIN" }

\* The reader comes to a cell with text (_move_to_next_cell)
lex_cell ==
  /\ pc = L("functions", 0)
  /\ sheet = << >>
  /\ \E text \in LexTexts : sheet' = << Cell("text", text, TRUE) >>
  /\ pc' = L("_process_text_content", 0)
  /\ UNCHANGED << stack, delivered, current_token, names, meter, notes, errors,
                  classifier, result, runs, warning_log >>

\* One more pull on the cell: _process_text_content makes a token of it, or
\* finds it exhausted and goes on to _read_next_token on the next cell.
lex_pull ==
  /\ pc = L("_process_text_content", 0)
  /\ LET r == process_text_content(
                current_text_iter(sheet[1].content, Len(delivered)))
     IN  IF r.token = NoToken
         THEN /\ pc' = L("_read_next_token", 0)
              /\ UNCHANGED << delivered, current_token, meter, classifier >>
         ELSE /\ ProcessText(r.token)
              /\ delivered' = Append(delivered, r.token)
              /\ UNCHANGED pc
  /\ UNCHANGED << stack, sheet, names, notes, errors, result, runs, warning_log >>

NextFunctions == classify \/ token_type \/ lex_cell \/ lex_pull

SpecFunctions == InitFunctions /\ [][NextFunctions]_vars

(***************************************************************************)
(* Properties of parse().                                                  *)
(***************************************************************************)
\* s begins with prefix, character by character.
BeginsWith(s, prefix) ==
  /\ Len(s) >= Len(prefix)
  /\ \A i \in 1..Len(prefix) : SubSeq(s, i, i) = SubSeq(prefix, i, i)

IsNoteName(s) == BeginsWith(s, "SOL_TOKEN") \/ BeginsWith(s, "FA_TOKEN")

\* parse() has returned, or has raised.
Finished == pc = Done

\* A pull of this parse raised.
Faulted ==
  \/ result = "raised"
  \/ \E i \in 1..Len(error_log) : error_log[i] = "Parsing error: fault"

\* The entries of the two sequences.
Entries ==
  { note_tokens_fa[i] : i \in 1..Len(note_tokens_fa) }
  \cup { note_tokens_sol[i] : i \in 1..Len(note_tokens_sol) }

\* C1: when no pull raises (a further cell is there after END_OF_PARTITION),
\* parse() returns True if and only if a prefix of the tokens delivered is a
\* sentence of the grammar; and it returns False only on tokens that no
\* continuation makes a sentence.
C1_ParseAcceptsTheGrammar ==
  (Finished /\ ~Faulted) =>
    /\ result = "True" <=> Grammar(delivered) = "sentence"
    /\ result = "False" <=> Grammar(delivered) = "dead"

\* A parse that returned True on a staff of two measures.
C1_Witness ==
  /\ Finished
  /\ result = "True"
  /\ \E i \in 1..(Len(delivered) - 1) : delivered[i].type = "MEASURE_BAR"

\* C2: on a successful parse every note entry is a resolved note symbol of
\* the input, an underscore, and the payload of the IDENTIFIER token after
\* INSTRUMENT COLON (the seventh token).
C2_NoteEntriesCarryTheInstrument ==
  (Finished /\ result = "True") =>
    \A entry \in Entries \ { "PAUSE", "HALF_PAUSE" } :
      \E i \in 1..Len(delivered) :
        /\ delivered[i].type = "NOTE"
        /\ entry = delivered[i].value \o "_" \o delivered[7].value

\* The sheet is a minimal valid input: the header, a treble clef, a pitch
\* image that classified as NOTE, the end-of-staff bar and FIN.
MinimalValidInput ==
  /\ Len(sheet) >= Len(StandardHeader) + 4
  /\ \A i \in 1..Len(StandardHeader) : sheet[i] = StandardHeader[i]
  /\ sheet[9] = Cell("image", "Note_CLE_SOL.JPG", TRUE)
  /\ sheet[10] \in PitchCells
  /\ delivered[10].type = "NOTE"
  /\ sheet[11] = Cell("image", "BATON_FIN_PORTEE.JPG", TRUE)
  /\ sheet[12] = Cell("text", "FIN", TRUE)

\* C3: a minimal valid input, whatever pitch image classifies as NOTE under
\* the treble clef, parses successfully with exactly one entry in the SOL
\* sequence and none in the FA sequence.
C3_MinimalInputGivesOneSolEntry ==
  (Finished /\ ~Faulted /\ MinimalValidInput) =>
    /\ result = "True"
    /\ Len(note_tokens_sol) = 1
    /\ note_tokens_fa = << >>

\* C4: once a grammar violation is recorded, no step of the parse pulls a
\* token or appends an entry to the FA or SOL sequence.
C4_ParseStopsAtTheFirstViolation ==
  [][has_error =>
       /\ Len(delivered') = Len(delivered)
       /\ Len(note_tokens_fa') = Len(note_tokens_fa)
       /\ Len(note_tokens_sol') = Len(note_tokens_sol)]_vars

\* C5: when a parse fails on a grammar violation, the message it retains is
\* the diagnostic of the first violation of that parse.
C5_FirstDiagnosticIsRetained ==
  (Finished /\ ~Faulted /\ result = "False") => error_message = error_log[1]

\* C6: a parse whose tokens reach END_OF_PARTITION with no grammar violation
\* returns success, whatever follows END_OF_PARTITION, a sheet with no
\* further cell included.
C6_EndOfPartitionIsSuccess ==
  (Finished /\ Grammar(delivered) = "sentence") => result = "True"

\* C7: a fault raised by a pull, the first one included, never reaches the
\* caller: parse() returns False with has_error set and a message recorded.
C7_FaultsAreCaught ==
  /\ result # "raised"
  /\ (Finished /\ Faulted) =>
       result = "False" /\ has_error /\ error_message # ""

\* The token after the last measure of a staff is neither MEASURE_BAR nor
\* END_STAFF_BAR (nor the beginning of one more symbol of the measure).
StaffNotTerminated ==
  \E i \in 1..Len(delivered) :
    /\ Grammar(SubSeq(delivered, 1, i - 1)) = "symbol"
    /\ Grammar(SubSeq(delivered, 1, i)) = "dead"

\* C8: when a staff is not terminated by END_STAFF_BAR, parse() returns
\* False and its error_message names "end of staff" as the context.
C8_MissingStaffBarIsNamed ==
  (Finished /\ ~Faulted /\ StaffNotTerminated) =>
    /\ result = "False"
    /\ startswith(error_message, "Syntax error in end of staff")

\* The number of measures among the tokens whose number of symbols differs
\* from the meter declared for their staff: meter is the declared meter (-1
\* when none), count the symbols of the measure so far.
RECURSIVE MismatchedMeasures(_, _, _)
MismatchedMeasures(tokens, meter_declared, count) ==
  IF tokens = << >> THEN 0
  ELSE LET tok  == Head(tokens)
           rest == Tail(tokens)
       IN  IF tok.type \in { "CLEF_SOL", "CLEF_FA" }
           THEN MismatchedMeasures(rest, -1, 0)
           ELSE IF tok.type = "METER"
           THEN MismatchedMeasures(rest, tok.value, 0)
           ELSE IF tok.type \in { "NOTE", "PAUSE", "HALF_PAUSE" }
           THEN MismatchedMeasures(rest, meter_declared, count + 1)
           ELSE IF tok.type \in { "MEASURE_BAR", "END_STAFF_BAR" }
           THEN (IF meter_declared # -1 /\ count # meter_declared THEN 1 ELSE 0)
                + MismatchedMeasures(rest,
                    IF tok.type = "MEASURE_BAR" THEN meter_declared ELSE -1, 0)
           ELSE MismatchedMeasures(rest, meter_declared, count)

\* C9: every measure of a staff with a declared meter whose number of symbols
\* differs from the meter gives one semantic warning, and a parse that gave
\* a warning does not fail for it.
C9_EveryMismatchedMeasureWarns ==
  (Finished /\ Grammar(delivered) = "sentence" /\ ~Faulted) =>
    /\ result = "True"
    /\ Len(warning_log) = MismatchedMeasures(delivered, -1, 0)
    /\ \A i \in 1..Len(warning_log) :
         startswith(warning_log[i], "Semantic error: Measure content does not match")

\* The entry the parser makes of a token: a note symbol with the instrument
\* name, or the name of the rest kind.
EntryOf(tok) ==
  IF tok.type = "NOTE"
  THEN note_with_instrument(tok.value, instrument_name)
  ELSE tok.type

\* Whether a NOTE, PAUSE or HALF_PAUSE token goes to the FA sequence.
GoesToFa(tok) ==
  IF tok.type = "NOTE" THEN NoteGoesToFa(tok.value) ELSE tok.clef = "FA"

\* The entries of the tokens that go to the FA sequence (fa) or to the SOL
\* sequence (~fa), in the order of the tokens.
RECURSIVE EntriesInOrder(_, _)
EntriesInOrder(tokens, fa) ==
  IF tokens = << >> THEN << >>
  ELSE LET tok == Head(tokens)
       IN  IF tok.type \in { "NOTE", "PAUSE", "HALF_PAUSE" } /\ GoesToFa(tok) = fa
           THEN << EntryOf(tok) >> \o EntriesInOrder(Tail(tokens), fa)
           ELSE EntriesInOrder(Tail(tokens), fa)

\* s is t with some of its elements left out.
RECURSIVE IsSubsequence(_, _)
IsSubsequence(s, t) ==
  IF s = << >> THEN TRUE
  ELSE IF t = << >> THEN FALSE
  ELSE IF Head(s) = Head(t) THEN IsSubsequence(Tail(s), Tail(t))
  ELSE IsSubsequence(s, Tail(t))

\* s is a prefix of t.
IsPrefix(s, t) == Len(s) <= Len(t) /\ SubSeq(t, 1, Len(s)) = s

\* Each sequence lists entries of its own tokens in the order of the input,
\* and all of them once the parse has succeeded (the token pulled after
\* END_OF_PARTITION is not part of the partition).
InInputOrder ==
  /\ note_tokens_fa # << >> =>
       IsSubsequence(note_tokens_fa, EntriesInOrder(delivered, TRUE))
  /\ note_tokens_sol # << >> =>
       IsSubsequence(note_tokens_sol, EntriesInOrder(delivered, FALSE))
  /\ result = "True" =>
       LET partition == SubSeq(delivered, 1, Len(delivered) - 1)
       IN  /\ Entries # { } =>
                /\ note_tokens_fa = EntriesInOrder(partition, TRUE)
                /\ note_tokens_sol = EntriesInOrder(partition, FALSE)
           /\ Entries = { } =>
                \A i \in 1..Len(partition) :
                  partition[i].type \notin { "NOTE", "PAUSE", "HALF_PAUSE" }

\* A step leaves each sequence as it is or appends to its end.
AppendOnly ==
  /\ IsPrefix(note_tokens_fa, note_tokens_fa')
  /\ IsPrefix(note_tokens_sol, note_tokens_sol')

\* C10: during a parse the FA and SOL sequences change only by appending at
\* the end, and each lists its own entries in the order their tokens occurred
\* in the input, across measure bars and across staves.
C10_SequencesKeepInputOrder == [][AppendOnly]_vars /\ []InInputOrder

\* A parse is over with three entries: one before a measure bar, one after it
\* in the same staff, and one in the next staff.
C10_Witness ==
  /\ Finished
  /\ Len(note_tokens_fa) + Len(note_tokens_sol) = 3
  /\ \E b, c \in 1..Len(delivered) :
       /\ b < c
       /\ delivered[b].type = "MEASURE_BAR"
       /\ delivered[c].type \in { "CLEF_SOL", "CLEF_FA" }
       /\ \E i \in 1..(b - 1) : delivered[i].type \in { "NOTE", "PAUSE" }
       /\ \E i \in (b + 1)..(c - 1) : delivered[i].type \in { "NOTE", "PAUSE" }
       /\ \E i \in (c + 1)..Len(delivered) : delivered[i].type \in { "NOTE", "PAUSE" }

\* The state of a freshly constructed parser and classifier once parse()
\* has reset it and is about to make its first pull.
FreshParseStarted ==
  /\ pc = L("_read_next_token", 0)
  /\ stack = << L("parse", 1) >>
  /\ current_token = NoToken
  /\ has_error = FALSE
  /\ error_message = ""
  /\ partition_name = ""
  /\ instrument_name = ""
  /\ meter_value = -1
  /\ meter_controller = -1
  /\ note_tokens_fa = << >>
  /\ note_tokens_sol = << >>
  /\ current_clef = "NONE"
  /\ current_alteration = "NONE"

\* C11: when parse() is called on a stream B after a parse of a stream A,
\* the parser and the classifier begin B in the state in which a fresh parser
\* and classifier begin it: nothing of A remains, so B's flag, message,
\* sequences and final clef, alteration and meter are those of a fresh parse.
C11_SecondParseStartsFresh ==
  [][runs' # runs => FreshParseStarted']_vars

\* The second parse has ended in success with entries of B.
C11_Witness ==
  /\ runs = 2
  /\ Finished
  /\ result = "True"
  /\ note_tokens_sol # << >>
  /\ note_tokens_fa # << >>

\* The step pulls an image cell whose file does not exist.
PullsMissingImage ==
  /\ Len(sheet') = Len(sheet) + 1
  /\ sheet'[Len(sheet')].kind = "image"
  /\ ~sheet'[Len(sheet')].exists

\* C18: for an image file that does not exist parse_image returns no token
\* and leaves the held clef and alteration as they are; the parser then
\* takes a bare UNKNOWN token as its current token and goes on with the
\* parse, without a fault.
C18_MissingImageBecomesUnknown ==
  /\ \A clef \in ClefType, alteration \in AlterationType,
        match \in { None, "Note_H2.JPG", "Note_CLE_FA.JPG" } :
       parse_image([ exists |-> FALSE, match |-> match ], clef, alteration)
         = [ token |-> NoToken, clef |-> clef, alteration |-> alteration ]
  /\ [][PullsMissingImage =>
          /\ current_token' = Token("UNKNOWN", None, "NONE", "NONE")
          /\ delivered'[Len(delivered')] = current_token'
          /\ UNCHANGED classifier
          /\ pc' # Done
          /\ result' = "pending"
          /\ error_log' = error_log
          /\ has_error' = has_error]_vars

\* A parse has pulled a missing image while the treble clef was held, has
\* gone on to report the UNKNOWN token as a grammar violation, and returned.
C18_Witness ==
  /\ Finished
  /\ ~Faulted
  /\ result = "False"
  /\ current_clef = "SOL"
  /\ \E i \in 1..Len(sheet) :
       /\ sheet[i].kind = "image"
       /\ ~sheet[i].exists
       /\ delivered[i] = Token("UNKNOWN", None, "NONE", "NONE")
       /\ current_token = delivered[i]

\* An UNKNOWN token is delivered before END_OF_PARTITION has been matched.
UnknownBeforeEnd ==
  \E i \in 1..Len(delivered) :
    /\ delivered[i].type = "UNKNOWN"
    /\ Grammar(SubSeq(delivered, 1, i - 1)) # "sentence"

\* C20: a parse whose tokens hold an UNKNOWN token before END_OF_PARTITION
\* has been matched returns False.
C20_UnknownTokenFailsTheParse ==
  (Finished /\ UnknownBeforeEnd) => result = "False"

\* A parse has returned False on an image without a match that came where a
\* symbol of a measure could stand, after a note.
C20_Witness ==
  /\ Finished
  /\ ~Faulted
  /\ result = "False"
  /\ \E i \in 2..Len(delivered) :
       /\ delivered[i].type = "UNKNOWN"
       /\ delivered[i - 1].type = "NOTE"
       /\ sheet[i] = Cell("image", None, TRUE)

\* C21: in a staff with a declared meter M the live counter equals M when a
\* measure begins, the measures after the first included.
C21_CounterIsMeterAtMeasureStart ==
  (pc = L("_parse_measure", 0) /\ ~has_error /\ meter_value # -1) =>
    meter_controller = meter_value

\* The step logs a measure-length warning.
Warns == Len(warning_log') = Len(warning_log) + 1

\* The staff that the tokens are in (the one of their last clef) declares a
\* meter: the token after its clef is a METER token.  The tokens are those
\* consumed, without the current token, which is the one after the measure.
StaffDeclaresMeter(tokens) ==
  \E c \in 1..(Len(tokens) - 1) :
    /\ tokens[c].type \in { "CLEF_SOL", "CLEF_FA" }
    /\ \A i \in (c + 1)..Len(tokens) : tokens[i].type \notin { "CLEF_SOL", "CLEF_FA" }
    /\ tokens[c + 1].type = "METER"

ConsumesSymbol == pc = L("_parse_symbol", 0)

\* C23: the live counter is -1 or within 0..meter_value in every state of a
\* parse; the step that consumes a symbol lowers it by exactly one when it is
\* positive and leaves it as it is otherwise.
C23_CounterStaysInRange ==
  /\ [](\/ meter_controller = -1
        \/ meter_controller \in 0..meter_value)
  /\ [][ConsumesSymbol =>
          /\ meter_controller > 0 => meter_controller' = meter_controller - 1
          /\ meter_controller <= 0 => meter_controller' = meter_controller
          /\ meter_value' = meter_value]_vars

\* Under meter 1 the second symbol of a measure has been consumed with the
\* counter at 0, where it stays.
C23_Witness ==
  /\ pc = L("_parse_symbol", 1)
  /\ meter_value = 1
  /\ meter_controller = 0
  /\ ~has_error
  /\ Len(delivered) >= 12
  /\ delivered[10].type = "METER"
  /\ delivered[11].type = "PAUSE"
  /\ delivered[12].type = "PAUSE"

\* The last entry of a sequence.
Last(list) == list[Len(list)]

\* The step appends one entry to the FA sequence and none to the SOL
\* sequence, and the other way round.
AppendsToFa ==
  /\ Len(note_tokens_fa') = Len(note_tokens_fa) + 1
  /\ SubSeq(note_tokens_fa', 1, Len(note_tokens_fa)) = note_tokens_fa
  /\ note_tokens_sol' = note_tokens_sol

AppendsToSol ==
  /\ Len(note_tokens_sol') = Len(note_tokens_sol) + 1
  /\ SubSeq(note_tokens_sol', 1, Len(note_tokens_sol)) = note_tokens_sol
  /\ note_tokens_fa' = note_tokens_fa

\* C25: when _parse_note_height takes a NOTE token, the entry goes to the FA
\* sequence and not to the SOL sequence if the token's symbol begins with
\* FA_TOKEN, and to the SOL sequence and not to the FA sequence otherwise,
\* whatever clef the token records.
C25_NotePrefixChoosesTheSequence ==
  [][(pc = L("_parse_note_height", 0) /\ current_token.type = "NOTE") =>
       IF BeginsWith(current_token.value, "FA_TOKEN")
       THEN AppendsToFa /\ BeginsWith(Last(note_tokens_fa'), current_token.value)
       ELSE AppendsToSol /\ BeginsWith(Last(note_tokens_sol'), current_token.value)]_vars

\* Under the treble clef the pitch H15, whose symbol is FA_TOKEN_SI_H, has
\* gone to the FA sequence and the pitch H2 to the SOL sequence.
C25_Witness ==
  /\ Len(note_tokens_fa) = 1
  /\ Len(note_tokens_sol) = 1
  /\ BeginsWith(note_tokens_fa[1], "FA_TOKEN_SI_H")
  /\ BeginsWith(note_tokens_sol[1], "SOL_TOKEN_DO_MILIEU")
  /\ \A i \in 1..Len(delivered) : delivered[i].clef # "FA"

Count(list, Test(_)) == Cardinality({ i \in 1..Len(list) : Test(list[i]) })

C28_PartitionNameIsTheIdentifier ==
  pc = L("_parse_partition", 8) => partition_name = delivered[3].value

\* The pull of this step finds the reader on a cell with neither text nor an
\* image.
MeetsEmptyCell ==
  /\ pc = L("_read_next_token", 0)
  /\ Len(sheet') = Len(sheet) + 1
  /\ Last(sheet') = EmptyCell

\* C29: a pull that finds the reader on a cell with neither text nor an
\* image moves on and returns to its caller with the token of a following
\* cell as the current token; it raises nothing.
C29_EmptyCellIsSkipped ==
  [][MeetsEmptyCell =>
       /\ pc' = Head(stack)
       /\ result' = "pending"
       /\ has_error' = has_error
       /\ Len(delivered') = Len(delivered) + 1
       /\ current_token' = Last(delivered')]_vars

\* The places the three repetitions of the parser return to: a further
\* staff, a further measure, a further symbol.
RepetitionFrames ==
  { L("_parse_multiple_staffs", 2), L("_parse_additional_measures", 3),
    L("_parse_additional_symbols", 2) }

\* The number of repetitions that are open.
RepetitionDepth ==
  Cardinality({ i \in 1..Len(stack) : stack[i] \in RepetitionFrames })

\* C30: parse() terminates.  Every repetition that is open has consumed a
\* token of its own before it recursed, also after a grammar violation, so
\* the open repetitions are never more than the tokens pulled; and every
\* parse comes to its end.
C30_ParseTerminates ==
  /\ [](RepetitionDepth <= Len(delivered))
  /\ <>Finished

\* A parse has come to its end after a grammar violation was recorded inside
\* a measure, with tokens pulled after the violation.
C30_Witness ==
  /\ Finished
  /\ result = "False"
  /\ ~Faulted
  /\ Len(error_log) >= 2
  /\ \E i \in 1..(Len(delivered) - 1) :
       Grammar(SubSeq(delivered, 1, i)) = "dead"

\* The place of the first END_OF_PARTITION token among the tokens pulled, 0
\* when there is none.
FirstEndOfPartition ==
  LET ends == { i \in 1..Len(delivered) :
                  delivered[i].type = "END_OF_PARTITION" }
  IN  IF ends = {} THEN 0
      ELSE CHOOSE i \in ends : \A j \in ends : i <= j

\* C31: parse() pulls no token once END_OF_PARTITION has been matched: in a
\* successful parse the number of tokens pulled is the number of tokens of the
\* input up to and including END_OF_PARTITION.
C31_NoPullAfterEndOfPartition ==
  (Finished /\ result = "True") =>
    FirstEndOfPartition # 0 /\ Len(delivered) = FirstEndOfPartition

\* The clef that opened the staff the i-th token pulled is in: the clef of
\* the last clef token before it, "NONE" when there is none.
RECURSIVE StaffClefAt(_)
StaffClefAt(i) ==
  IF i <= 1 THEN "NONE"
  ELSE IF delivered[i - 1].type = "CLEF_SOL" THEN "SOL"
  ELSE IF delivered[i - 1].type = "CLEF_FA" THEN "FA"
  ELSE StaffClefAt(i - 1)

\* The places of the rests of the partition among the tokens pulled.
RestsOfThePartition ==
  { i \in 1..Len(delivered) :
      /\ delivered[i].type \in { "PAUSE", "HALF_PAUSE" }
      /\ i < FirstEndOfPartition }

\* The kinds of the rests of the staffs of one clef, in input order.
RECURSIVE RestsUnder(_, _)
RestsUnder(clef, n) ==
  IF n = 0 THEN << >>
  ELSE IF n \in RestsOfThePartition /\ StaffClefAt(n) = clef
  THEN Append(RestsUnder(clef, n - 1), delivered[n].type)
  ELSE RestsUnder(clef, n - 1)

IsRestEntry(entry) == entry \in { "PAUSE", "HALF_PAUSE" }

Returned == Finished /\ result \in { "True", "False" }

\* C34: within one parse has_error never goes from True back to False;
\* parse() returns True exactly when has_error is False when it returns; and
\* error_message is non-empty exactly when has_error is True.
C34_ErrorFlagAndMessageAgree ==
  /\ [][has_error => has_error']_vars
  /\ [](Returned => (result = "True" <=> ~has_error))
  /\ [](error_message # "" <=> has_error)

\* parse() has returned False after two diagnostics: the flag was set by the
\* first and was still set when the second was recorded.
C34_Witness ==
  /\ Returned
  /\ result = "False"
  /\ has_error
  /\ Len(error_log) >= 2
  /\ error_message # error_log[1]
  /\ startswith(error_message, "Syntax error in ")

(***************************************************************************)
(* Properties of the classifier.                                           *)
(***************************************************************************)
\* This step classified one more image.
Classified == Len(sheet') = Len(sheet) + 1 /\ sheet'[Len(sheet')].kind = "image"

\* The image this step classified, and what parse_image returned for it.
ClassifiedImage == sheet'[Len(sheet')]

ReturnedToken == delivered'[Len(delivered')]

\* The position among the sixteen pitch images, 0 for any other cell.
PitchPosition(cell) ==
  IF cell \in PitchCells THEN index(REFERENCE_IMAGES, cell.content) + 1 ELSE 0

\* C12: classifying any of the 16 pitch images while no clef is held,
\* whatever alteration is held, returns an UNKNOWN token with no payload.
C12_PitchWithoutClefIsUnknown ==
  [][(Classified /\ ClassifiedImage \in PitchCells /\ current_clef = "NONE") =>
       /\ ReturnedToken.type = "UNKNOWN"
       /\ ReturnedToken.value = None]_vars

\* A flat and then a pitch image have been classified with no clef held.
C12_Witness ==
  /\ Len(sheet) >= 2
  /\ sheet[1].content = "Alteration_BEMOL.JPG"
  /\ sheet[2] \in PitchCells
  /\ delivered[2].clef = "NONE"
  /\ delivered[2].type = "UNKNOWN"

\* The table the claims name for a held clef and alteration.
TableOf(clef, alteration) ==
  CASE clef = "SOL" /\ alteration = "NONE"  -> SOL_TOKENS
    [] clef = "SOL" /\ alteration = "DIESE" -> SOL_SHARP_TOKENS
    [] clef = "SOL" /\ alteration = "BEMOL" -> SOL_BEMOL_TOKENS
    [] clef = "FA"  /\ alteration = "NONE"  -> FA_TOKENS
    [] clef = "FA"  /\ alteration = "DIESE" -> FA_SHARP_TOKENS
    [] clef = "FA"  /\ alteration = "BEMOL" -> FA_BEMOL_TOKENS

\* tok is what the entry of the table at the position resolves to: a NOTE
\* with the entry as payload, or UNKNOWN when the entry is the empty string.
ResolvedFrom(tok, table, position) ==
  IF table[position] # ""
  THEN tok.type = "NOTE" /\ tok.value = table[position]
  ELSE tok.type = "UNKNOWN"

AccidentalCells ==
  { Cell("image", "Alteration_DIESE.JPG", TRUE),
    Cell("image", "Alteration_BEMOL.JPG", TRUE) }

AlterationOf(cell) ==
  IF cell.content = "Alteration_DIESE.JPG" THEN "DIESE" ELSE "BEMOL"

\* Positions i < j < k of the images classified: an accidental, the next
\* pitch after it, the next pitch after that one, no accidental in between.
AccidentalThenTwoPitches(i, j, k) ==
  /\ i < j /\ j < k
  /\ sheet[i] \in AccidentalCells
  /\ sheet[j] \in PitchCells
  /\ sheet[k] \in PitchCells
  /\ \A m \in (i + 1)..(k - 1) :
       m # j => sheet[m] \notin AccidentalCells \cup PitchCells

\* C14: after an accidental is classified, the next pitch classified under a
\* held clef is resolved from that accidental's table of the clef, and the
\* pitch after it from the unaltered table.
C14_AlterationIsConsumedOnce ==
  \A i, j, k \in 1..Len(sheet) :
    (pc = L("functions", 0) /\ AccidentalThenTwoPitches(i, j, k)) =>
      /\ delivered[j].clef # "NONE" =>
           ResolvedFrom(delivered[j],
                        TableOf(delivered[j].clef, AlterationOf(sheet[i])),
                        PitchPosition(sheet[j]))
      /\ delivered[k].clef # "NONE" =>
           ResolvedFrom(delivered[k], TableOf(delivered[k].clef, "NONE"),
                        PitchPosition(sheet[k]))

\* Sharp, pitch H2, pitch H3 classified under the treble clef: the first from
\* the sharp table, the second from the unaltered table.
C14_Witness ==
  /\ Len(sheet) = 3
  /\ sheet[1].content = "Alteration_DIESE.JPG"
  /\ sheet[2].content = "Note_H2.JPG"
  /\ sheet[3].content = "Note_H3.JPG"
  /\ delivered[2].clef = "SOL"
  /\ delivered[2].value = "FA_TOKEN_RE_L_SHARP"
  /\ delivered[3].value = "SOL_TOKEN_RE_L"

\* C15: with the treble clef and no alteration held, Note_H1.JPG classifies
\* as a NOTE token.
C15_FirstPitchUnderTrebleIsNote ==
  [][(/\ Classified
      /\ ClassifiedImage = Cell("image", "Note_H1.JPG", TRUE)
      /\ current_clef = "SOL"
      /\ current_alteration = "NONE") =>
       ReturnedToken.type = "NOTE"]_vars

\* The kind each structural reference image stands for.
StructuralKind ==
  ( "Note_CLE_SOL.JPG" :> "CLEF_SOL" ) @@ ( "Note_CLE_FA.JPG" :> "CLEF_FA" )
  @@ ( "Note_PAUSE.JPG" :> "PAUSE" ) @@ ( "Note_DEMI_PAUSE.JPG" :> "HALF_PAUSE" )
  @@ ( "BATON_MESURE.JPG" :> "MEASURE_BAR" )
  @@ ( "BATON_FIN_PORTEE.JPG" :> "END_STAFF_BAR" )
  @@ ( "Alteration_DIESE.JPG" :> "ALTERATION_DIESE" )
  @@ ( "Alteration_BEMOL.JPG" :> "ALTERATION_BEMOL" )

\* C16: each of the 8 structural images classifies to its own kind in every
\* classifier state; a clef image sets the held clef to that clef, and an
\* accidental image the held alteration to that accidental.
C16_StructuralImagesClassifyDirectly ==
  [][(Classified /\ ClassifiedImage.exists
        /\ ClassifiedImage.content \in DOMAIN StructuralKind) =>
       LET image == ClassifiedImage.content
       IN  /\ ReturnedToken.type = StructuralKind[image]
           /\ image = "Note_CLE_SOL.JPG" => current_clef' = "SOL"
           /\ image = "Note_CLE_FA.JPG" => current_clef' = "FA"
           /\ image = "Alteration_DIESE.JPG" => current_alteration' = "DIESE"
           /\ image = "Alteration_BEMOL.JPG" => current_alteration' = "BEMOL"]_vars

\* The bass clef has overwritten a held treble clef and the flat a held sharp.
C16_Witness ==
  /\ Len(sheet) = 3
  /\ sheet[1].content = "Alteration_DIESE.JPG"
  /\ sheet[2].content = "Note_CLE_FA.JPG"
  /\ sheet[3].content = "Alteration_BEMOL.JPG"
  /\ delivered[1].clef = "SOL"
  /\ current_clef = "FA"
  /\ current_alteration = "BEMOL"

\* C17: when the matcher returns no identifier, or one that is none of the
\* 24 reference images, classification returns an UNKNOWN token, in every
\* classifier state (parse_image has no other outcome: the failed lookup is
\* caught).
C17_UnmatchedImageIsUnknown ==
  [][(Classified /\ ClassifiedImage.exists
        /\ ClassifiedImage.content \notin
             { REFERENCE_IMAGES[i] : i \in 1..Len(REFERENCE_IMAGES) }) =>
       /\ ReturnedToken.type = "UNKNOWN"
       /\ ReturnedToken.value = None]_vars

\* An image without a match and one with a foreign identifier have been
\* classified while a clef and a sharp were held.
C17_Witness ==
  /\ Len(sheet) = 3
  /\ sheet[1].content = "Alteration_DIESE.JPG"
  /\ sheet[2] = Cell("image", None, TRUE)
  /\ sheet[3] = Cell("image", ForeignImage, TRUE)
  /\ delivered[2].clef = "FA"
  /\ delivered[2].type = "UNKNOWN"
  /\ delivered[3].type = "UNKNOWN"

\* C19: get_token_type_from_string gives each name of the keyword table its
\* kind, NOTE to every other string that begins with SOL_TOKEN or FA_TOKEN,
\* and UNKNOWN to the rest; every non-empty entry of the six pitch tables
\* gives NOTE.
C19_TokenTypeFromString ==
  (pc = Done /\ Len(sheet) = 1 /\ sheet[1].kind = "text") =>
    LET token_str == sheet[1].content
        kind      == delivered[1].type
    IN  /\ kind \in TokenType
        /\ token_str \in DOMAIN token_mapping => kind = token_mapping[token_str]
        /\ token_str \in DOMAIN token_mapping => kind # "NOTE"
        /\ (token_str \notin DOMAIN token_mapping /\ IsNoteName(token_str)) =>
             kind = "NOTE"
        /\ (token_str \notin DOMAIN token_mapping /\ ~IsNoteName(token_str)) =>
             kind = "UNKNOWN"
        /\ (token_str \in PitchEntries /\ token_str # "") => kind = "NOTE"

\* An entry of the treble sharp table, which begins with FA_TOKEN, has been
\* looked up.
C19_Witness ==
  /\ pc = Done
  /\ sheet = << Cell("text", "FA_TOKEN_DO_MILIEU_SHARP", TRUE) >>
  /\ delivered[1].type = "NOTE"

\* C24: after any of the 16 pitch images is classified, whatever clef and
\* alteration were held and whether the token is NOTE or UNKNOWN, the held
\* alteration is NONE.
C24_PitchResetsTheAlteration ==
  [][(Classified /\ ClassifiedImage \in PitchCells) =>
       /\ ReturnedToken.type \in { "NOTE", "UNKNOWN" }
       /\ current_alteration' = "NONE"
       /\ current_clef' = current_clef]_vars

\* A sharp and then a pitch have been classified with no clef held: the
\* token is UNKNOWN and the sharp is no longer held.
C24_Witness ==
  /\ Len(sheet) = 2
  /\ sheet[1].content = "Alteration_DIESE.JPG"
  /\ sheet[2] \in PitchCells
  /\ delivered[2].clef = "NONE"
  /\ delivered[2].type = "UNKNOWN"
  /\ current_alteration = "NONE"

\* The reference images of the two clefs, and those of the accidentals and
\* the pitches.
ClefImageCells ==
  { Cell("image", "Note_CLE_SOL.JPG", TRUE),
    Cell("image", "Note_CLE_FA.JPG", TRUE) }

RestAndBarCells ==
  { Cell("image", m, TRUE) :
      m \in { "Note_PAUSE.JPG", "Note_DEMI_PAUSE.JPG", "BATON_MESURE.JPG",
              "BATON_FIN_PORTEE.JPG" } }

\* The classification found no reference image: the file is missing, the
\* matcher gave nothing, or it gave an identifier that is no reference image.
FailedMatch(cell) ==
  \/ ~cell.exists
  \/ cell.content \notin { REFERENCE_IMAGES[i] : i \in 1..Len(REFERENCE_IMAGES) }

\* C32: classification changes the held clef only when a clef image is
\* classified and the held alteration only when an accidental or a pitch
\* image is classified: rest, half-rest, measure-bar and end-of-staff-bar
\* images and a failed match leave both unchanged, accidental and pitch
\* images leave the held clef unchanged, and clef images leave the held
\* alteration unchanged.
C32_ClassificationFrame ==
  [][Classified =>
       LET cell == ClassifiedImage
       IN  /\ current_clef' # current_clef => cell \in ClefImageCells
           /\ current_alteration' # current_alteration =>
                cell \in AccidentalCells \cup PitchCells
           /\ (cell \in RestAndBarCells \/ FailedMatch(cell)) =>
                UNCHANGED classifier
           /\ cell \in AccidentalCells \cup PitchCells =>
                UNCHANGED current_clef
           /\ cell \in ClefImageCells => UNCHANGED current_alteration]_vars

\* With a bass clef and a flat held, a rest, an image without a match and a
\* treble clef have been classified: the flat is still held.
C32_Witness ==
  /\ Len(sheet) = 3
  /\ sheet[1].content = "Note_PAUSE.JPG"
  /\ sheet[2] = Cell("image", None, TRUE)
  /\ sheet[3].content = "Note_CLE_SOL.JPG"
  /\ delivered[1].clef = "FA"
  /\ current_clef = "SOL"
  /\ current_alteration = "BEMOL"

\* The pulls on the text cell have exhausted it.
Lexed == pc = L("_read_next_token", 0) /\ Len(sheet) = 1

\* The number of characters of the text that are the character c.
Occurrences(text, c) ==
  Cardinality({ i \in 1..Len(text) : SubSeq(text, i, i) = c })

\* The characters a token stands for.
Lexeme(tok) ==
  CASE tok.type = "COLON" -> ":"
    [] tok.type = "SEMICOLON" -> ";"
    [] tok.type = "PERIOD" -> "."
    [] tok.type = "METER" -> DigitStr[tok.value + 1]
    [] tok.type = "NAME" -> "Nom"
    [] tok.type = "INSTRUMENT" -> "Instrument"
    [] tok.type = "END_OF_PARTITION" -> "FIN"
    [] OTHER -> tok.value

RECURSIVE Lexemes(_)
Lexemes(tokens) ==
  IF tokens = << >> THEN "" ELSE Lexeme(Head(tokens)) \o Lexemes(Tail(tokens))

\* The text without its whitespace.
RECURSIVE WithoutWhitespace(_)
WithoutWhitespace(text) ==
  IF text = "" THEN ""
  ELSE IF SubSeq(text, 1, 1) \in Whitespace THEN WithoutWhitespace(Rest(text))
  ELSE SubSeq(text, 1, 1) \o WithoutWhitespace(Rest(text))

\* C35: text lexing delivers every ':', ';' and '.' character of a cell as a
\* COLON, SEMICOLON or PERIOD token, also when the character directly
\* follows a keyword or identifier: the text "Nom:" yields NAME and then
\* COLON, and no character of the text that is not whitespace is dropped.
C35_PunctuationAfterAWordIsLexed ==
  Lexed =>
    LET text == sheet[1].content
    IN  /\ Count(delivered, LAMBDA tok : tok.type = "COLON")
             = Occurrences(text, ":")
        /\ Count(delivered, LAMBDA tok : tok.type = "SEMICOLON")
             = Occurrences(text, ";")
        /\ Count(delivered, LAMBDA tok : tok.type = "PERIOD")
             = Occurrences(text, ".")
        /\ text = "Nom:" =>
             /\ Len(delivered) = 2
             /\ delivered[1].type = "NAME"
             /\ delivered[2].type = "COLON"
        /\ Lexemes(delivered) = WithoutWhitespace(text)

\* C36: every non-empty note symbol resolved while the held clef is SOL
\* begins with SOL_TOKEN and every one resolved while the held clef is FA
\* begins with FA_TOKEN, for every held alteration and pitch position (so that
\* the notes of a treble staff go to the SOL sequence and those of a bass
\* staff to the FA sequence).
C36_NoteSymbolCarriesItsClef ==
  [][(Classified /\ ReturnedToken.type = "NOTE") =>
       /\ current_clef = "SOL" => BeginsWith(ReturnedToken.value, "SOL_TOKEN")
       /\ current_clef = "FA" => BeginsWith(ReturnedToken.value, "FA_TOKEN")]_vars

\* The other accidental.
OtherAlteration(alteration) == IF alteration = "DIESE" THEN "BEMOL" ELSE "DIESE"

\* The token the classified image resolves to under the held clef when the
\* alteration held is the given one.
ResolvedUnder(alteration) ==
  parse_image([ exists |-> ClassifiedImage.exists,
                match |-> ClassifiedImage.content ],
              current_clef, alteration).token

\* C37: an accidental always changes the emitted note symbol: for each clef
\* and pitch position, a non-empty sharp entry and a non-empty flat entry
\* each differ from the unaltered entry of the same clef and position, and
\* differ from each other.
C37_AccidentalChangesTheSymbol ==
  [][(Classified /\ ClassifiedImage \in PitchCells
        /\ current_alteration # "NONE" /\ ReturnedToken.type = "NOTE") =>
       /\ ReturnedToken.value # ResolvedUnder("NONE").value
       /\ ReturnedToken.value
            # ResolvedUnder(OtherAlteration(current_alteration)).value]_vars

====
